---- MODULE Spec2Model ----
(***************************************************************************)
(* State-machine model of the session engine of aiomeshtastic              *)
(* (custom_components/meshtastic/aiomeshtastic/interface.py):              *)
(* MeshInterface.start/stop, the supervised heartbeat and ingestion        *)
(* activities, the reconnection loop, the config-sync handshake and the    *)
(* fan-out of inbound frames.                                              *)
(*                                                                         *)
(* One action is one run of one asyncio task between two suspension points *)
(* (an await that really suspends), or the completion of an awaited call   *)
(* of the Connection capability with one of its outcomes.  A cancellation  *)
(* requested with Task.cancel() is delivered as CancelledError at the      *)
(* await the task is suspended in, the next time the task runs.            *)
(***************************************************************************)
EXTENDS Integers, Sequences, FiniteSets, TLC

\* ---------------------------------------------------------------- bounds
MaxGen == 2          \* successful start() calls in one behaviour
MaxFrames == 2       \* inbound frames in one behaviour
MaxListeners == 2    \* stream listeners that can be registered
MaxUserStops == 2    \* stop() calls of the session's owner
MaxReqs == 1         \* correlated requests in one behaviour
MaxChannels == 2     \* length of the channel list a channel selection reads
MaxConfigs == 3      \* config and module-config frames in one behaviour

\* ------------------------------------------------------ program constants
ReconnectDelayMin == 5
ReconnectDelayMax == 30
LocalNum == 1        \* node number the device reports in my_info
BroadcastNum == 99   \* stands for BROADCAST_NUM (0xFFFFFFFF)
AckTimeout == 30          \* _ack_timeout when the constructor is given none
ResponseTimeout == 60     \* _response_timeout when the constructor is given none
PerCallTimeout == 15      \* a `timeout` argument given by a caller
PKC_CHANNEL_INDEX == 8

Nil == "nil"
NoNum == 0            \* None where a number is expected
NoList == << -1 >>     \* None where a list is expected
NoFrame == [seq |-> 0, frame |-> [kind |-> "none", num |-> 0, port |-> Nil, ok |-> FALSE]]
Free == <<"free", 0>>

\* ------------------------------------------------------------------ tasks
\* A task is named by what it runs and by the start() (generation) or the
\* inbound frame that created it.
User == <<"usr", 0>>
HbTasks == {"hb"} \X (1..MaxGen)
IngTasks == {"ing"} \X (1..MaxGen)
CfgTasks == {"cfg"} \X (1..MaxGen)
RstTasks == {"rst"} \X (1..MaxFrames)
AppTasks == {"app"} \X (1..MaxFrames)
LoopTasks == HbTasks \cup IngTasks
Executors == {User} \cup RstTasks
Activities == HbTasks \cup IngTasks \cup CfgTasks \cup RstTasks \cup AppTasks
Tasks == Activities \cup {User}

Kind(t) == t[1]
Terminal == {"done", "cancelled", "failed"}
MidFrame == {"ing_stream", "ing_port"}

\* ----------------------------------------------------------------- frames
NodeNums == {LocalNum, 2, BroadcastNum}
Ports == {"text", "telemetry"}
PortListeners == {"text", "telemetry"}   \* ports with a registered port listener
Frames ==
    [kind : {"rebooted", "my_info", "metadata", "channel"}, num : {0}, port : {Nil}, ok : {TRUE}]
    \cup [kind : {"node_info"}, num : NodeNums, port : {Nil}, ok : {TRUE}]
    \cup [kind : {"packet"}, num : {2}, port : Ports, ok : {TRUE}]
    \cup [kind : {"packet"}, num : {2}, port : {Nil}, ok : {FALSE}]

VARIABLES
    running,      \* _is_running
    ready,        \* _connected_node_ready
    info,         \* _connected_node_info: NoNum or the local node number
    metadata,     \* _connected_node_metadata: NoNum or the frame that set it
    channels,     \* _connected_node_channels: NoList or a sequence
    nodeDb,       \* _node_database: known node number -> record
    local_config, \* _connected_node_local_config: sub-field -> value
    module_config,\* _connected_node_module_config: sub-field -> value
    pc,           \* where each task is suspended
    cancelReq,    \* tasks with a cancellation requested and not yet delivered
    force,        \* force_reconnect of each task inside _reconnect_while_running
    delay,        \* length of the backoff sleep a task is in (0: none)
    waitFor,      \* the tasks a stop() in progress waits for (asyncio.wait)
    cancelTodo,   \* _cancel_task tasks created and not yet run: <<stopper, target>>
    processing,   \* _processing_tasks
    background,   \* _background_tasks
    lock,         \* holder of _reconnect_lock ("R"), _listen_lock ("L"), _connected_node_config_lock ("C")
    waiters,      \* FIFO of the tasks waiting for each lock
    listeners,    \* _packet_stream_listeners
    queue,        \* the frames delivered to each stream listener
    closed,       \* stream listeners that were closed
    cur,          \* the frame the ingestion loop is processing (NoFrame between frames)
    connected,    \* the Connection capability is open
    gen,          \* successful start() calls so far
    nframes,      \* inbound frames so far
    userStops,    \* stop() calls of the owner so far
    log,          \* per-frame processing events, in the order they happened
    inbound,      \* the config and module-config sub-messages ingested so far
    sent,         \* of the device's answer to the last config request: the number of
                  \* channels ingested, and the requests whose answer had its identity
                  \* frame ingested
    req,          \* the correlated requests: one record per _send_message_await_response call
    args,         \* what a channel selection reads besides the local node number: the nodes
                  \* whose record has hasPKC, and the channel list with roles and names
    out           \* the last channel selection or send: what it returned, raised and submitted

devVars == <<info, metadata, channels, nodeDb, local_config, module_config>>
flagVars == <<running, ready>>
taskVars == <<pc, cancelReq, force, delay, waitFor, cancelTodo, processing, background>>
lockVars == <<lock, waiters>>
lsnVars == <<listeners, queue, closed>>
envVars == <<connected, gen, nframes, userStops>>
frameVars == <<cur, log, inbound, sent>>
apiVars == <<req, args, out>>
vars == <<flagVars, devVars, taskVars, lockVars, lsnVars, envVars, frameVars, apiVars>>

\* ----------------------------------------------------------- config frames
\* sub-fields of Config and of ModuleConfig (two of each; the code treats the
\* others in the same way), and the values a sub-message can carry; 0 is the
\* value of a sub-field of a newly constructed snapshot
LocalFields == {"device", "lora"}
ModuleFields == {"mqtt", "telemetry"}
ConfigValues == {1, 2}
ConfigFrames ==
    [kind : {"config"}, field : LocalFields, val : ConfigValues]
    \cup [kind : {"moduleConfig"}, field : ModuleFields, val : ConfigValues]

Done(t) == pc[t] \in Terminal
Alive(t) == pc[t] \notin Terminal \cup {"none"}
Range(s) == {s[i] : i \in 1..Len(s)}
Without(s, x) == SelectSeq(s, LAMBDA y : y # x)

\* ------------------------------------------------- requests and selections
Undefined == 0                           \* the UNDEFINED default of `timeout`
ErrNone == "NONE"                        \* Routing.Error.NONE
Errors == {"NO_ROUTE", "MAX_RETRANSMIT"} \* Routing.Error values other than NONE
Reqs == 1..MaxReqs

\* a request that was not made yet
NoReq ==
    [st |-> "none",        \* "wait": suspended in asyncio.wait; "ended": returned or raised;
                           \* "gone": ended and its tasks are over
     want |-> FALSE,       \* want_response
     timeout |-> Undefined,
     actual |-> 0,         \* actual_timeout
     el |-> 0,             \* time elapsed since the call, frozen when it ends
     acked |-> FALSE,      \* ack_received
     aged |-> FALSE,       \* time has passed since on_ack ran
     errq |-> <<>>,        \* error_queue
     abort |-> "none",     \* abort_on_error_task
     got |-> ErrNone,      \* the error abort_on_error_task returned
     send |-> "none",      \* send_packet_task
     done |-> {},          \* the `done` set asyncio.wait returned
     outcome |-> Nil]      \* what the request returned or raised

\* a request of the past
Gone == [NoReq EXCEPT !.st = "gone"]

NoIndex == -2                            \* None where a channel index is expected
NoArgs == [pkc |-> {}, chans |-> <<>>]
NoName == "None"                         \* None where a channel name is expected
NoOut == [op |-> "none", node |-> NoNum, name |-> NoName, ret |-> NoIndex, found |-> FALSE,
          raised |-> FALSE, error |-> "none", submitted |-> FALSE, channel |-> NoIndex]

\* the state after construction but for the local node number and for what
\* a channel selection reads
InitSession ==
    /\ running = FALSE /\ ready = FALSE
    /\ metadata = NoNum /\ channels = NoList
    /\ nodeDb = <<>>
    /\ local_config = [f \in LocalFields |-> 0]
    /\ module_config = [f \in ModuleFields |-> 0]
    /\ inbound = <<>>
    /\ sent = [chan |-> 0, id |-> {}]
    /\ pc = [t \in Tasks |-> IF t = User THEN "idle" ELSE "none"]
    /\ cancelReq = {}
    /\ force = [t \in LoopTasks |-> FALSE]
    /\ delay = [t \in LoopTasks |-> 0]
    /\ waitFor = [e \in Executors |-> {}]
    /\ cancelTodo = {}
    /\ processing = {} /\ background = {}
    /\ lock = [k \in {"R", "L", "C"} |-> Free]
    /\ waiters = [k \in {"R", "L", "C"} |-> <<>>]
    /\ listeners = <<>>
    /\ queue = [l \in 1..MaxListeners |-> <<>>]
    /\ closed = {}
    /\ cur = NoFrame
    /\ connected = FALSE
    /\ gen = 0 /\ nframes = 0 /\ userStops = 0
    /\ log = <<>>
    /\ req = [r \in Reqs |-> NoReq]
    /\ out = NoOut

Init == InitSession /\ info = NoNum /\ args = NoArgs

\* A task runs only when no cancellation is waiting for it (the cancellation is
\* delivered instead) and while no other task is between two suspension points.
NoneMidFrame == \A t \in IngTasks : pc[t] \notin MidFrame
CanRun(t) == t \notin cancelReq /\ NoneMidFrame

\* The event loop runs the first steps of tasks in the order the tasks were
\* created. A task that has not run yet takes its first step before the
\* _cancel_task tasks of a stop() whose snapshot holds it (it was created before
\* them) and after those of a stop() whose snapshot does not hold it.
RunsFirst(t) == \A x \in cancelTodo : <<x[1], t>> \in cancelTodo

\* ------------------------------------------------------------ start, stop
\* _cancel_processing_tasks / _cancel_background_tasks: one _cancel_task task per
\* tracked task, then asyncio.wait on all of them.
BeginWait(e, S, p) ==
    /\ cancelTodo' = cancelTodo \cup ({e} \X S)
    /\ waitFor' = [waitFor EXCEPT ![e] = S]
    /\ pc' = [pc EXCEPT ![e] = p]

\* stop() on a running session, up to its first suspension.
StopEnter(e) ==
    /\ running' = FALSE /\ ready' = FALSE
    /\ listeners' = <<>>
    /\ closed' = closed \cup Range(listeners)
    /\ IF processing # {}
         THEN BeginWait(e, processing \cup background, "stop_wait1")
         ELSE IF background # {}
           THEN BeginWait(e, background, "stop_wait2")
           ELSE /\ pc' = [pc EXCEPT ![e] = "stop_senddisc"]
                /\ UNCHANGED <<cancelTodo, waitFor>>
    /\ UNCHANGED <<processing, background, cancelReq, force, delay>>
    /\ UNCHANGED <<devVars, lockVars, queue, connected, gen, nframes, frameVars>>

\* The same without the guard on the running flag.
StopAlways(e, ret) == StopEnter(e)

\* stop(): returns at once when the running flag is not set. ret is where the
\* caller continues after the return.
Stop(e, ret) ==
    IF ~running
      THEN /\ pc' = [pc EXCEPT ![e] = ret]
           /\ UNCHANGED <<flagVars, devVars, cancelReq, force, delay, waitFor, cancelTodo,
                          processing, background, lockVars, lsnVars, connected, gen, nframes,
                          frameVars>>
      ELSE StopEnter(e)

UserStop ==
    /\ pc[User] = "idle" /\ NoneMidFrame
    /\ userStops < MaxUserStops
    /\ userStops' = userStops + 1
    /\ Stop(User, "idle")
    /\ UNCHANGED apiVars

\* the "reconnect" background task of a rebooted frame: stop() then start()
RstRun(t) ==
    /\ pc[t] = "start" /\ CanRun(t) /\ RunsFirst(t)
    /\ Stop(t, "start_connect")
    /\ UNCHANGED userStops
    /\ UNCHANGED apiVars

WaitOver(e) ==
    /\ \A t \in waitFor[e] : Done(t)
    /\ \A t \in Tasks : <<e, t>> \notin cancelTodo

StopWait1Done(e) ==
    /\ pc[e] = "stop_wait1" /\ CanRun(e) /\ WaitOver(e)
    /\ processing' = {}
    /\ IF background # {}
         THEN BeginWait(e, background, "stop_wait2")
         ELSE /\ pc' = [pc EXCEPT ![e] = "stop_senddisc"]
              /\ waitFor' = [waitFor EXCEPT ![e] = {}]
              /\ UNCHANGED cancelTodo
    /\ UNCHANGED <<flagVars, devVars, cancelReq, force, delay, background, lockVars, lsnVars,
                   envVars, frameVars>>
    /\ UNCHANGED apiVars

StopWait2Done(e) ==
    /\ pc[e] = "stop_wait2" /\ CanRun(e) /\ WaitOver(e)
    /\ pc' = [pc EXCEPT ![e] = "stop_senddisc"]
    /\ waitFor' = [waitFor EXCEPT ![e] = {}]
    /\ UNCHANGED <<flagVars, devVars, cancelReq, force, delay, cancelTodo, processing,
                   background, lockVars, lsnVars, envVars, frameVars>>
    /\ UNCHANGED apiVars

\* send_disconnect() has returned or raised: either way stop() goes on (suppress)
StopSendDisconnect(e) ==
    /\ pc[e] = "stop_senddisc" /\ CanRun(e)
    /\ pc' = [pc EXCEPT ![e] = "stop_disc"]
    /\ UNCHANGED <<flagVars, devVars, cancelReq, force, delay, waitFor, cancelTodo, processing,
                   background, lockVars, lsnVars, envVars, frameVars>>
    /\ UNCHANGED apiVars

\* disconnect() has returned: stop() returns; the restart task goes on to start()
StopDisconnect(e) ==
    /\ pc[e] = "stop_disc" /\ CanRun(e)
    /\ connected' = FALSE
    /\ pc' = [pc EXCEPT ![e] = IF e = User THEN "idle" ELSE "start_connect"]
    /\ UNCHANGED <<flagVars, devVars, cancelReq, force, delay, waitFor, cancelTodo, processing,
                   background, lockVars, lsnVars, gen, nframes, userStops, frameVars>>
    /\ UNCHANGED apiVars

\* the owner starts a session that is not running
UserStart ==
    /\ pc[User] = "idle" /\ NoneMidFrame
    /\ ~running
    /\ gen < MaxGen
    /\ pc' = [pc EXCEPT ![User] = "start_connect"]
    /\ UNCHANGED <<flagVars, devVars, cancelReq, force, delay, waitFor, cancelTodo, processing,
                   background, lockVars, lsnVars, envVars, frameVars>>
    /\ UNCHANGED apiVars

\* the owner calls start() on a session that is running: start() tests nothing
StartWhileRunning ==
    /\ pc[User] = "idle" /\ NoneMidFrame
    /\ running
    /\ gen < MaxGen
    /\ pc' = [pc EXCEPT ![User] = "start_connect"]
    /\ UNCHANGED <<flagVars, devVars, cancelReq, force, delay, waitFor, cancelTodo, processing,
                   background, lockVars, lsnVars, envVars, frameVars>>
    /\ UNCHANGED apiVars

\* connect() has returned: the rest of start()
StartConnectOk(e) ==
    /\ pc[e] = "start_connect" /\ CanRun(e)
    /\ gen < MaxGen
    /\ LET g == gen + 1 IN
       /\ gen' = g
       /\ running' = TRUE
       /\ connected' = TRUE
       /\ processing' = {<<"hb", g>>, <<"ing", g>>}
       /\ background' = (background \cup {<<"cfg", g>>}) \ {e}
       /\ pc' = [pc EXCEPT ![e] = IF e = User THEN "idle" ELSE "done",
                           ![<<"hb", g>>] = "start",
                           ![<<"ing", g>>] = "start",
                           ![<<"cfg", g>>] = "start"]
    /\ UNCHANGED <<ready, devVars, cancelReq, force, delay, waitFor, cancelTodo, lockVars,
                   lsnVars, nframes, userStops, frameVars>>
    /\ UNCHANGED apiVars

\* a start() that sets the running flag before it connects
ConnectFailsWhileRunning(e) ==
    /\ pc[e] = "start_connect" /\ CanRun(e)
    /\ pc' = [pc EXCEPT ![e] = IF e = User THEN "idle" ELSE "failed"]
    /\ background' = background \ {e}
    /\ running' = TRUE
    /\ UNCHANGED <<ready, devVars, cancelReq, force, delay, waitFor, cancelTodo, processing,
                   lockVars, lsnVars, envVars, frameVars>>

\* `await self._connection.connect()` has raised: start() ends there, before
\* `self._is_running.set()`, and raises to its caller
ConnectFails(e) ==
    /\ pc[e] = "start_connect" /\ CanRun(e)
    /\ pc' = [pc EXCEPT ![e] = IF e = User THEN "idle" ELSE "failed"]
    /\ background' = background \ {e}
    /\ UNCHANGED <<flagVars, devVars, cancelReq, force, delay, waitFor, cancelTodo, processing,
                   lockVars, lsnVars, envVars, frameVars>>

StartConnectFail(e) ==
    /\ ConnectFails(e)
    /\ UNCHANGED apiVars

\* the same with what the caller of start() gets
StartRaises(e) ==
    /\ ConnectFails(e)
    /\ out' = [NoOut EXCEPT !.op = "start", !.raised = TRUE, !.error = "connect"]
    /\ UNCHANGED <<req, args>>

\* The _cancel_task tasks of one asyncio.wait were created in a row and run in a
\* row: t.cancel() on every task of the snapshot that is not done yet.
CancelRun(e) ==
    /\ \E t \in Activities : <<e, t>> \in cancelTodo
    /\ NoneMidFrame
    /\ \A t \in Activities : <<e, t>> \in cancelTodo => pc[t] # "start"
    /\ cancelTodo' = {x \in cancelTodo : x[1] # e}
    /\ cancelReq' = cancelReq \cup {t \in Activities : <<e, t>> \in cancelTodo /\ ~Done(t)}
    /\ UNCHANGED <<flagVars, devVars, pc, force, delay, waitFor, processing, background,
                   lockVars, lsnVars, envVars, frameVars>>
    /\ UNCHANGED apiVars

\* ----------------------------------------------------------------- locks
Release(k, t) == IF lock[k] = t THEN Free ELSE lock[k]
\* asyncio.Lock.acquire returns at once only when the lock is free and nobody waits
LockIdle(k) == lock[k] = Free /\ waiters[k] = <<>>
\* a waiter gets the lock when it is free and the waiter is first in line
LockTurn(k, t) == lock[k] = Free /\ waiters[k] # <<>> /\ Head(waiters[k]) = t

\* the tasks suspended in Connection.request_config(): the config sync of a
\* start() and the reconnection loops
Requesting == {t \in CfgTasks \cup LoopTasks : pc[t] \in {"cfg_req", "rc_config"}}

\* Connection.request_config() is called by task t: the device answers a config
\* request with its identity and with its channels in the order of their
\* indexes, from index 0
RequestConfig(t) == sent' = [chan |-> 0, id |-> sent.id \ {t}]

\* the answer to the config request of task t went through the ingestion as
\* far as the identity
Dumped(t) == t \in sent.id

\* ---------------------------------------------------- reconnection loop
\* where the caller of _reconnect_while_running goes on after its return:
\* the heartbeat sleeps again (while True); the listen generator tests the
\* running flag, listens again or ends, and then the ingestion activity ends.
RcReturnPc(t) ==
    IF Kind(t) = "hb" THEN "hb_sleep"
    ELSE IF running THEN "ing_wait" ELSE "done"

RcReturn(t, holder, wq) ==
    [pc |-> RcReturnPc(t), holder |-> holder, wq |-> wq, force |-> FALSE, delay |-> 0]

\* the loop acquiring the lock whoever holds it
RcLoopHeadNoLock(t, holder, wq, frc) ==
    IF ~running THEN RcReturn(t, holder, wq)
    ELSE [pc |-> "rc_reconnect", holder |-> t, wq |-> wq, force |-> frc, delay |-> 0]

\* `while self.is_running:` and `async with self._reconnect_lock:` up to the
\* first suspension; holder and wq are the lock as this step has left it.
RcLoopHead(t, holder, wq, frc) ==
    IF ~running THEN RcReturn(t, holder, wq)
    ELSE IF holder = Free /\ wq = <<>>
      THEN [pc |-> "rc_reconnect", holder |-> t, wq |-> wq, force |-> frc, delay |-> 0]
      ELSE [pc |-> "rc_lock", holder |-> holder, wq |-> Append(wq, t), force |-> frc, delay |-> 0]

\* the failure path of the loop: random.randint(5, 30), then asyncio.sleep
RcBackoff(t, d) ==
    [pc |-> "rc_backoff", holder |-> Release("R", t), wq |-> waiters["R"], force |-> force[t],
     delay |-> d]

\* a backoff that may be shorter than the shortest one
ReconnectDelaysFromZero == 0..ReconnectDelayMax

ReconnectDelays == ReconnectDelayMin..ReconnectDelayMax

\* a task leaving the step with the loop state r; an ingestion activity that
\* ends gives up the listen lock
Apply(t, r) ==
    /\ pc' = [pc EXCEPT ![t] = r.pc]
    /\ lock' = [lock EXCEPT !["R"] = r.holder,
                            !["L"] = IF r.pc \in Terminal /\ @ = t THEN Free ELSE @]
    /\ waiters' = [waiters EXCEPT !["R"] = r.wq]
    /\ force' = [force EXCEPT ![t] = r.force]
    /\ delay' = [delay EXCEPT ![t] = r.delay]

RcLockAcquired(t) ==
    /\ pc[t] = "rc_lock" /\ CanRun(t) /\ LockTurn("R", t)
    /\ Apply(t, [pc |-> "rc_reconnect", holder |-> t, wq |-> Tail(waiters["R"]),
                 force |-> force[t], delay |-> 0])
    /\ UNCHANGED <<flagVars, devVars, cancelReq, waitFor, cancelTodo, processing, background,
                   lsnVars, envVars, frameVars>>
    /\ UNCHANGED apiVars

\* wait_for(reconnect(force), 30) ran out of time: `continue`
RcReconnectTimeout(t) ==
    /\ pc[t] = "rc_reconnect" /\ CanRun(t)
    /\ Apply(t, RcLoopHead(t, Free, waiters["R"], force[t]))
    /\ UNCHANGED <<flagVars, devVars, cancelReq, waitFor, cancelTodo, processing, background,
                   lsnVars, envVars, frameVars>>
    /\ UNCHANGED apiVars

\* reconnect() returned did_reconnect
RcReconnectOk(t, did) ==
    /\ pc[t] = "rc_reconnect" /\ CanRun(t)
    /\ connected' = TRUE
    /\ IF did
         THEN Apply(t, [pc |-> "rc_config", holder |-> t, wq |-> waiters["R"],
                        force |-> force[t], delay |-> 0])
         ELSE Apply(t, RcReturn(t, Free, waiters["R"]))
    /\ IF did THEN RequestConfig(t) ELSE UNCHANGED sent
    /\ UNCHANGED <<flagVars, devVars, cancelReq, waitFor, cancelTodo, processing, background,
                   lsnVars, gen, nframes, userStops, cur, log, inbound>>
    /\ UNCHANGED apiVars

\* reconnect() or request_config() raised something that is no timeout
RcFail(t, d) ==
    /\ pc[t] \in {"rc_reconnect", "rc_config"} /\ CanRun(t)
    /\ Apply(t, RcBackoff(t, d))
    /\ UNCHANGED <<flagVars, devVars, cancelReq, waitFor, cancelTodo, processing, background,
                   lsnVars, envVars, frameVars>>
    /\ UNCHANGED apiVars

\* request_config() completed within 60
RcConfigOk(t) ==
    /\ pc[t] = "rc_config" /\ CanRun(t)
    /\ ready' = TRUE
    /\ Apply(t, RcReturn(t, Free, waiters["R"]))
    /\ UNCHANGED <<running, devVars, cancelReq, waitFor, cancelTodo, processing, background,
                   lsnVars, envVars, frameVars>>
    /\ UNCHANGED apiVars

\* a timeout that leaves force_reconnect as it is
ForceKept(frc) == frc

\* `except TimeoutError: force_reconnect = True`
ForceAfterConfigTimeout(frc) == TRUE

\* wait_for(request_config(), 60) ran out of time: force the next reconnect
RcConfigTimeout(t) ==
    /\ pc[t] = "rc_config" /\ CanRun(t)
    /\ Apply(t, RcLoopHead(t, Free, waiters["R"], ForceAfterConfigTimeout(force[t])))
    /\ UNCHANGED <<flagVars, devVars, cancelReq, waitFor, cancelTodo, processing, background,
                   lsnVars, envVars, frameVars>>
    /\ UNCHANGED apiVars

\* the backoff sleep is over
RcBackoffDone(t) ==
    /\ pc[t] = "rc_backoff" /\ CanRun(t)
    /\ Apply(t, RcLoopHead(t, lock["R"], waiters["R"], force[t]))
    /\ UNCHANGED <<flagVars, devVars, cancelReq, waitFor, cancelTodo, processing, background,
                   lsnVars, envVars, frameVars>>
    /\ UNCHANGED apiVars

\* -------------------------------------------------------------- heartbeat
\* a heartbeat that starts the reconnection loop without force
HeartbeatNoForce == FALSE

\* `await self._reconnect_while_running(force=True)` of the heartbeat
HeartbeatForce == TRUE

\* the sleep of the heartbeat interval is over: a connection-status request when
\* ready, send_heartbeat() otherwise. The request raises at once when the local
\* identity is nil (send_admin_message_await_response reads my_node_num).
HbSleepDone(t) ==
    /\ pc[t] = "hb_sleep" /\ CanRun(t)
    /\ IF ready /\ info = NoNum
         THEN Apply(t, RcLoopHead(t, lock["R"], waiters["R"], HeartbeatForce))
         ELSE /\ pc' = [pc EXCEPT ![t] = IF ready THEN "hb_status" ELSE "hb_send"]
              /\ UNCHANGED <<force, delay, lockVars>>
    /\ UNCHANGED <<flagVars, devVars, cancelReq, waitFor, cancelTodo, processing, background,
                   lsnVars, envVars, frameVars>>
    /\ UNCHANGED apiVars

HbCallOk(t) ==
    /\ pc[t] \in {"hb_status", "hb_send"} /\ CanRun(t)
    /\ pc' = [pc EXCEPT ![t] = "hb_sleep"]
    /\ UNCHANGED <<flagVars, devVars, cancelReq, force, delay, waitFor, cancelTodo, processing,
                   background, lockVars, lsnVars, envVars, frameVars>>
    /\ UNCHANGED apiVars

\* the heartbeat failed: _reconnect_while_running(force=True)
HbCallFail(t) ==
    /\ pc[t] \in {"hb_status", "hb_send"} /\ CanRun(t)
    /\ Apply(t, RcLoopHead(t, lock["R"], waiters["R"], HeartbeatForce))
    /\ UNCHANGED <<flagVars, devVars, cancelReq, waitFor, cancelTodo, processing, background,
                   lsnVars, envVars, frameVars>>
    /\ UNCHANGED apiVars

\* -------------------------------------------------------------- ingestion
\* an ingestion activity that starts to listen whoever holds the listen lock
IngEnterNoLock ==
    IF ~running THEN "done" ELSE "ing_wait"

\* process_while_running around _process_from_radio_packets_loop: test the
\* running flag, then enter _listen_while_running (async with self._listen_lock)
IngEnterPc ==
    IF ~running THEN "done"
    ELSE IF LockIdle("L") THEN "ing_wait" ELSE "ing_lock"

\* the cool-down of process_while_running (sleep 5) is over
CoolDone(t) ==
    /\ pc[t] = "cool" /\ CanRun(t)
    /\ pc' = [pc EXCEPT ![t] = IngEnterPc]
    /\ lock' = [lock EXCEPT !["L"] = IF IngEnterPc = "ing_wait" THEN t ELSE @]
    /\ waiters' = [waiters EXCEPT !["L"] = IF IngEnterPc = "ing_lock" THEN Append(@, t) ELSE @]
    /\ UNCHANGED <<flagVars, devVars, cancelReq, force, delay, waitFor, cancelTodo, processing,
                   background, lsnVars, envVars, frameVars>>
    /\ UNCHANGED apiVars

\* the listen lock is acquired: `if not self.is_running: raise
\* ClientApiNotConnectedError`, which the wrapper answers with its cool-down
IngLockAcquired(t) ==
    /\ pc[t] = "ing_lock" /\ CanRun(t) /\ LockTurn("L", t)
    /\ pc' = [pc EXCEPT ![t] = IF running THEN "ing_wait" ELSE "cool"]
    /\ lock' = [lock EXCEPT !["L"] = IF running THEN t ELSE Free]
    /\ waiters' = [waiters EXCEPT !["L"] = Tail(@)]
    /\ UNCHANGED <<flagVars, devVars, cancelReq, force, delay, waitFor, cancelTodo, processing,
                   background, lsnVars, envVars, frameVars>>
    /\ UNCHANGED apiVars

\* Connection.listen() raised: _reconnect_while_running()
IngListenFail(t) ==
    /\ pc[t] = "ing_wait" /\ CanRun(t)
    /\ Apply(t, RcLoopHead(t, lock["R"], waiters["R"], FALSE))
    /\ UNCHANGED <<flagVars, devVars, cancelReq, waitFor, cancelTodo, processing, background,
                   lsnVars, envVars, frameVars>>
    /\ UNCHANGED apiVars

\* _get_or_create_node followed by node.update(): the record of a node
NodeRecord(n) == IF n \in DOMAIN nodeDb THEN nodeDb[n] ELSE [tele |-> 0]

\* Does step 1 write the local device info or the node database for frame f?
StoresInStep1(f) ==
    \/ f.kind \in {"my_info", "metadata", "channel"}
    \/ f.kind = "node_info" /\ f.num # BroadcastNum

\* _process_connected_node_packets and _process_node_info: the write of frame f
\* with sequence number k; a channel frame carries the index the device is at
StoreFrame(f, k) ==
    /\ info' = IF f.kind = "my_info" THEN LocalNum ELSE info
    /\ metadata' = IF f.kind = "metadata" THEN k ELSE metadata
    /\ channels' = IF f.kind = "channel" THEN Append(channels, sent.chan) ELSE channels
    /\ nodeDb' = IF f.kind = "node_info" /\ f.num # BroadcastNum
                   THEN [n \in DOMAIN nodeDb \cup {f.num} |-> NodeRecord(n)]
                   ELSE nodeDb
    /\ UNCHANGED <<local_config, module_config>>

\* a step 1 that lets the error of _get_or_create_node out as well
RaisesInStep1Uncaught(f) ==
    \/ f.kind = "channel" /\ channels = NoList
    \/ f.kind = "node_info" /\ f.num = BroadcastNum

\* Does step 1 raise on frame f? _process_node_info catches whatever its body
\* raises (the ValueError of _get_or_create_node for the broadcast number
\* included) and logs it; _process_connected_node_packets catches nothing, and a
\* channel frame met while the channel list is still None raises (None.append)
RaisesInStep1(f) == f.kind = "channel" /\ channels = NoList

\* the next frame of Connection.listen() arrives and step 1 runs on it. An
\* error of step 1 leaves the body of the ingestion activity, which the wrapper
\* answers with its cool-down.
IngFrame(t, f) ==
    /\ pc[t] = "ing_wait" /\ CanRun(t)
    /\ nframes < MaxFrames
    /\ LET k == nframes + 1 IN
       /\ nframes' = k
       /\ IF RaisesInStep1(f)
            THEN /\ pc' = [pc EXCEPT ![t] = "cool"]
                 /\ lock' = [lock EXCEPT !["L"] = Free]
                 /\ UNCHANGED <<devVars, background, frameVars>>
            ELSE /\ StoreFrame(f, k)
                 /\ cur' = [seq |-> k, frame |-> f]
                 /\ log' = IF StoresInStep1(f) THEN Append(log, <<"store", k>>) ELSE log
                 /\ UNCHANGED inbound
                 /\ sent' = [chan |-> IF f.kind = "channel" THEN sent.chan + 1 ELSE sent.chan,
                              id |-> IF f.kind = "my_info" THEN Requesting ELSE sent.id]
                 /\ pc' = [pc EXCEPT ![t] = "ing_stream",
                                     ![<<"rst", k>>] = IF f.kind = "rebooted" THEN "start" ELSE @]
                 /\ background' = IF f.kind = "rebooted"
                                    THEN background \cup {<<"rst", k>>} ELSE background
                 /\ UNCHANGED lock
    /\ UNCHANGED <<flagVars, cancelReq, force, delay, waitFor, cancelTodo, processing, waiters,
                   lsnVars, connected, gen, userStops>>
    /\ UNCHANGED apiVars

HasField(m, f) == m.field = f

\* a merge that replaces the snapshot by the sub-message
ReplaceSnapshot(snapshot, m) ==
    [f \in DOMAIN snapshot |-> IF HasField(m, f) THEN m.val ELSE 0]

\* `if config.HasField(f): snapshot.f.CopyFrom(config.f)` for every sub-field f
CopyPresentFields(snapshot, m) ==
    [f \in DOMAIN snapshot |-> IF HasField(m, f) THEN m.val ELSE snapshot[f]]

_process_connected_node_config(config) == CopyPresentFields(local_config, config)
_process_connected_node_module_config(module_config_) == CopyPresentFields(module_config, module_config_)

\* the next frame of Connection.listen() is a config or a module-config frame
\* and step 1 runs on it
ConfigFrame(t, m) ==
    /\ pc[t] = "ing_wait" /\ CanRun(t)
    /\ Len(inbound) < MaxConfigs
    /\ LET k == nframes + 1 IN
       /\ nframes' = k
       /\ cur' = [seq |-> k, frame |-> [kind |-> m.kind, num |-> 0, port |-> Nil, ok |-> TRUE]]
    /\ local_config' = IF m.kind = "config"
                         THEN _process_connected_node_config(m) ELSE local_config
    /\ module_config' = IF m.kind = "moduleConfig"
                          THEN _process_connected_node_module_config(m) ELSE module_config
    /\ inbound' = Append(inbound, m)
    /\ pc' = [pc EXCEPT ![t] = "ing_stream"]
    /\ UNCHANGED <<flagVars, info, metadata, channels, nodeDb, cancelReq, force, delay, waitFor,
                   cancelTodo, processing, background, lockVars, lsnVars, connected, gen,
                   userStops, log, sent>>
    /\ UNCHANGED apiVars

\* listener.notify(frame) of a queue-backed listener: the frame joins its queue
Notify(q, k) == Append(q, k)

\* a loop that leaves out the first listener of the list
NotifyAllButFirst(k) ==
    [l \in 1..MaxListeners |->
        IF l \in Range(listeners) /\ l # Head(listeners) THEN Notify(queue[l], k) ELSE queue[l]]

\* `for listener in self._packet_stream_listeners: await listener.notify(frame)`
NotifyAll(k) == [l \in 1..MaxListeners |-> IF l \in Range(listeners) THEN Notify(queue[l], k) ELSE queue[l]]

IngStream(t) ==
    /\ pc[t] = "ing_stream"
    /\ queue' = NotifyAll(cur.seq)
    /\ log' = IF listeners # <<>> THEN Append(log, <<"stream", cur.seq>>) ELSE log
    /\ pc' = [pc EXCEPT ![t] = "ing_port"]
    /\ UNCHANGED <<flagVars, devVars, cancelReq, force, delay, waitFor, cancelTodo, processing,
                   background, lockVars, listeners, closed, envVars, cur, inbound, sent>>
    /\ UNCHANGED apiVars

\* _process_packet_for_app_listener gets as far as the port listeners
Dispatches(f) == f.kind = "packet" /\ f.ok /\ f.port \in PortListeners
\* ... and merges telemetry into the record of a known node
MergesTelemetry(f) ==
    f.kind = "packet" /\ f.ok /\ f.port = "telemetry" /\ f.num \in DOMAIN nodeDb

\* the dispatch before the merge
PortEventsDispatchFirst(f, k) ==
    (IF Dispatches(f) THEN << <<"port", k>> >> ELSE <<>>)
    \o (IF MergesTelemetry(f) THEN << <<"merge", k>> >> ELSE <<>>)

\* what _process_packet_for_app_listener does with frame f, in its order: the
\* telemetry merge, then the dispatch to the port listeners
PortEvents(f, k) ==
    (IF MergesTelemetry(f) THEN << <<"merge", k>> >> ELSE <<>>)
    \o (IF Dispatches(f) THEN << <<"port", k>> >> ELSE <<>>)

\* a dispatch that awaits the port listeners inline: ingestion stays in
\* _process_packet_for_app_listener
AfterDispatchAwaited(f) ==
    IF Dispatches(f) THEN "ing_port"
    ELSE IF running THEN "ing_wait" ELSE "done"

\* where ingestion goes on after _process_packet_for_app_listener: the port
\* listeners are tasks of their own (_add_background_task) that nothing awaits,
\* so the listen generator resumes: `if not self.is_running: return`, which
\* ends the ingestion activity
AfterDispatch(f) == IF running THEN "ing_wait" ELSE "done"

IngPort(t) ==
    /\ pc[t] = "ing_port"
    /\ LET f == cur.frame
           k == cur.seq
           next == AfterDispatch(f)
       IN
       /\ nodeDb' = IF MergesTelemetry(f) THEN [nodeDb EXCEPT ![f.num].tele = k] ELSE nodeDb
       /\ background' = IF Dispatches(f) THEN background \cup {<<"app", k>>} ELSE background
       /\ pc' = [pc EXCEPT ![t] = next,
                           ![<<"app", k>>] = IF Dispatches(f) THEN "start" ELSE @]
       /\ log' = log \o PortEvents(f, k)
       /\ lock' = [lock EXCEPT !["L"] = IF next = "done" THEN Free ELSE @]
    /\ cur' = NoFrame
    /\ UNCHANGED <<flagVars, info, metadata, channels, local_config, module_config, inbound, sent,
                   cancelReq, force, delay, waitFor, cancelTodo, processing, waiters, lsnVars,
                   envVars>>
    /\ UNCHANGED apiVars

\* _process_packet_for_app_listener raises on a packet (a sender id that is no
\* number, a payload that does not convert): the error leaves the body of the
\* ingestion activity, the wrapper answers with its cool-down and the listen
\* generator, dropped, gives up the listen lock
IngPortFail(t) ==
    /\ pc[t] = "ing_port"
    /\ cur.frame.kind = "packet" /\ cur.frame.ok
    /\ pc' = [pc EXCEPT ![t] = "cool"]
    /\ lock' = [lock EXCEPT !["L"] = Free]
    /\ cur' = NoFrame
    /\ UNCHANGED <<flagVars, devVars, cancelReq, force, delay, waitFor, cancelTodo, processing,
                   background, waiters, lsnVars, envVars, log, inbound, sent>>
    /\ UNCHANGED apiVars

\* ---------------------------------------------------- config-sync handshake
\* _start_config under the config lock: clear the ready flag and replace the
\* identity, the metadata, the channel list and the node database; the local
\* config and module config snapshots are not touched
StartConfigReset ==
    /\ ready' = FALSE
    /\ info' = NoNum /\ metadata' = NoNum /\ channels' = <<>>
    /\ nodeDb' = <<>>
    /\ UNCHANGED <<local_config, module_config>>

\* The three tasks start() created take their first steps in a row, after
\* those of a start() before:
\*  - heartbeat: `while self.is_running:` then the sleep of the interval;
\*  - ingestion: `while self.is_running:` then the listen lock;
\*  - get_config: _start_config, the config lock, the reset, request_config().
FirstRun(g) ==
    LET hb == <<"hb", g>>
        ing == <<"ing", g>>
        cfg == <<"cfg", g>>
        gotC == LockIdle("C")
    IN
    /\ pc[hb] = "start" /\ pc[ing] = "start" /\ pc[cfg] = "start"
    /\ \A h \in 1..(g - 1) : pc[<<"hb", h>>] # "start"
    /\ NoneMidFrame
    /\ RunsFirst(hb) /\ RunsFirst(ing) /\ RunsFirst(cfg)
    /\ pc' = [pc EXCEPT ![hb] = IF running THEN "hb_sleep" ELSE "done",
                        ![ing] = IngEnterPc,
                        ![cfg] = IF gotC THEN "cfg_req" ELSE "cfg_lock"]
    /\ lock' = [lock EXCEPT !["L"] = IF IngEnterPc = "ing_wait" THEN ing ELSE @,
                            !["C"] = IF gotC THEN cfg ELSE @]
    /\ waiters' = [waiters EXCEPT !["L"] = IF IngEnterPc = "ing_lock" THEN Append(@, ing) ELSE @,
                                  !["C"] = IF gotC THEN @ ELSE Append(@, cfg)]
    /\ IF gotC THEN StartConfigReset /\ RequestConfig(cfg) ELSE UNCHANGED <<ready, devVars, sent>>
    /\ UNCHANGED <<running, cancelReq, force, delay, waitFor, cancelTodo, processing, background,
                   lsnVars, envVars, cur, log, inbound>>
    /\ UNCHANGED apiVars

CfgLockAcquired(t) ==
    /\ pc[t] = "cfg_lock" /\ CanRun(t) /\ LockTurn("C", t)
    /\ StartConfigReset /\ RequestConfig(t)
    /\ pc' = [pc EXCEPT ![t] = "cfg_req"]
    /\ lock' = [lock EXCEPT !["C"] = t]
    /\ waiters' = [waiters EXCEPT !["C"] = Tail(@)]
    /\ UNCHANGED <<running, cancelReq, force, delay, waitFor, cancelTodo, processing, background,
                   lsnVars, envVars, cur, log, inbound>>
    /\ UNCHANGED apiVars

\* a handshake that leaves the ready flag as it is
ReadyLeftAlone == ready

\* `self._connected_node_ready.set()` at the end of _start_config
ReadyAfterConfig == TRUE

\* request_config() completed: set the ready flag
CfgDone(t) ==
    /\ pc[t] = "cfg_req" /\ CanRun(t)
    /\ ready' = ReadyAfterConfig
    /\ pc' = [pc EXCEPT ![t] = "done"]
    /\ lock' = [lock EXCEPT !["C"] = Free]
    /\ background' = background \ {t}
    /\ UNCHANGED <<running, devVars, cancelReq, force, delay, waitFor, cancelTodo, processing,
                   waiters, lsnVars, envVars, frameVars>>
    /\ UNCHANGED apiVars

\* request_config() raised: the get_config task ends with the error
CfgFail(t) ==
    /\ pc[t] = "cfg_req" /\ CanRun(t)
    /\ pc' = [pc EXCEPT ![t] = "failed"]
    /\ lock' = [lock EXCEPT !["C"] = Free]
    /\ background' = background \ {t}
    /\ UNCHANGED <<flagVars, devVars, cancelReq, force, delay, waitFor, cancelTodo, processing,
                   waiters, lsnVars, envVars, frameVars>>
    /\ UNCHANGED apiVars

\* ------------------------------------------------------------------ accessors
\* the field itself, whatever the ready flag says
RawMetadata == metadata

\* connected_node_metadata(), connected_node_channels(): None unless ready
connected_node_metadata == IF ~ready THEN NoNum ELSE metadata
connected_node_channels == IF ~ready THEN NoList ELSE channels

\* connected_node(): None unless ready, then the record the node database has
\* for the local node number (given here by its number), None when it has none;
\* reading my_node_num of an identity that is None raises
AttributeError == -1
connected_node ==
    IF ~ready THEN NoNum
    ELSE IF info = NoNum THEN AttributeError
    ELSE IF info \in DOMAIN nodeDb THEN info ELSE NoNum

\* ------------------------------------------------------------ port listeners
\* a port listener's background task runs up to an await of its own
AppRun(t) ==
    /\ pc[t] = "start" /\ CanRun(t) /\ Kind(t) = "app" /\ RunsFirst(t)
    /\ pc' = [pc EXCEPT ![t] = "app_wait"]
    /\ UNCHANGED <<flagVars, devVars, cancelReq, force, delay, waitFor, cancelTodo, processing,
                   background, lockVars, lsnVars, envVars, frameVars>>
    /\ UNCHANGED apiVars

\* ... and ends; the done callback discards it from _background_tasks
AppEnd(t) ==
    /\ pc[t] = "app_wait" /\ CanRun(t)
    /\ pc' = [pc EXCEPT ![t] = "done"]
    /\ background' = background \ {t}
    /\ UNCHANGED <<flagVars, devVars, cancelReq, force, delay, waitFor, cancelTodo, processing,
                   lockVars, lsnVars, envVars, frameVars>>
    /\ UNCHANGED apiVars

\* ... or raises: the task ends with the error, which nobody retrieves
AppFail(t) ==
    /\ pc[t] = "app_wait" /\ CanRun(t)
    /\ pc' = [pc EXCEPT ![t] = "failed"]
    /\ background' = background \ {t}
    /\ UNCHANGED <<flagVars, devVars, cancelReq, force, delay, waitFor, cancelTodo, processing,
                   lockVars, lsnVars, envVars, frameVars>>
    /\ UNCHANGED apiVars

\* ---------------------------------------------------------- stream listeners
\* _listen: a new listener joins _packet_stream_listeners; listeners are
\* numbered in the order of their creation
Register(l) ==
    /\ NoneMidFrame
    /\ l \notin Range(listeners) /\ l \notin closed
    /\ \A m \in 1..(l - 1) : m \in Range(listeners) \cup closed
    /\ listeners' = Append(listeners, l)
    /\ UNCHANGED <<flagVars, devVars, taskVars, lockVars, queue, closed, envVars, frameVars>>
    /\ UNCHANGED apiVars

\* the consumer closes its stream: `finally: remove(listener)`, and the `with`
\* block drops the listener together with its queue
Unregister(l) ==
    /\ NoneMidFrame
    /\ l \in Range(listeners)
    /\ listeners' = Without(listeners, l)
    /\ closed' = closed \cup {l}
    /\ queue' = [queue EXCEPT ![l] = <<>>]
    /\ UNCHANGED <<flagVars, devVars, taskVars, lockVars, envVars, frameVars>>
    /\ UNCHANGED apiVars

\* ------------------------------------------------------------- cancellation
\* CancelledError raised at the await the task is suspended in.
\*  - inside _reconnect_while_running's try (waiting for the lock, in reconnect()
\*    or in request_config()): `except asyncio.CancelledError: break`, the loop
\*    returns normally to its caller;
\*  - in the cool-down of process_while_running: `break`, the activity ends;
\*  - anywhere else it propagates and the task ends cancelled.
CancelPc(t) ==
    IF pc[t] \in {"rc_lock", "rc_reconnect", "rc_config"} THEN RcReturnPc(t)
    ELSE IF pc[t] = "cool" THEN "done"
    ELSE "cancelled"

DeliverCancel(t) ==
    /\ t \in cancelReq /\ NoneMidFrame /\ Alive(t)
    /\ cancelReq' = cancelReq \ {t}
    /\ LET p == CancelPc(t) IN
       /\ pc' = [pc EXCEPT ![t] = p]
       /\ lock' = [k \in DOMAIN lock |->
                     IF lock[k] = t /\ (k \in {"R", "C"} \/ p \in Terminal) THEN Free ELSE lock[k]]
       /\ background' = IF p \in Terminal THEN background \ {t} ELSE background
    /\ waiters' = [k \in DOMAIN waiters |-> Without(waiters[k], t)]
    /\ force' = [x \in DOMAIN force |-> IF x = t THEN FALSE ELSE force[x]]
    /\ delay' = [x \in DOMAIN delay |-> IF x = t THEN 0 ELSE delay[x]]
    /\ waitFor' = [x \in DOMAIN waitFor |-> IF x = t THEN {} ELSE waitFor[x]]
    /\ UNCHANGED <<flagVars, devVars, cancelTodo, processing, lsnVars, envVars, frameVars>>
    /\ UNCHANGED apiVars

\* ------------------------------------------------------ correlated requests
\* _send_message_await_response. A request is suspended once, in asyncio.wait;
\* its two tasks and the Connection capability act while it is suspended.
actual_timeout(timeout, want_response) ==
    IF timeout # Undefined THEN timeout
    ELSE IF want_response THEN ResponseTimeout ELSE AckTimeout

\* the call, made on a session that is ready, up to its suspension in
\* asyncio.wait: both tasks are created and the packet is handed to
\* Connection.send_mesh_packet. Requests are numbered in the order of their
\* calls.
ReqStart(r, want_response, timeout) ==
    /\ connected /\ ready
    /\ req[r].st = "none"
    /\ \A m \in 1..(r - 1) : req[m].st # "none"
    /\ req' = [req EXCEPT ![r] = [NoReq EXCEPT !.st = "wait",
                                               !.want = want_response,
                                               !.timeout = timeout,
                                               !.actual = actual_timeout(timeout, want_response),
                                               !.abort = "get",
                                               !.send = "flight"]]
    /\ UNCHANGED <<flagVars, devVars, taskVars, lockVars, lsnVars, envVars, frameVars, args, out>>

\* on_ack: the event is set, and an error other than NONE joins the queue
on_ack(q, e) ==
    [q EXCEPT !.acked = TRUE,
              !.errq = IF e # ErrNone THEN Append(q.errq, e) ELSE q.errq]

\* Connection.send_mesh_packet: the acknowledgement of the packet arrives with
\* error code e and ack_callback runs; a send that asked for no response
\* returns with it
SendAck(r, e) ==
    /\ req[r].send = "flight" /\ ~req[r].acked
    /\ req' = [req EXCEPT ![r] = [on_ack(req[r], e) EXCEPT
                                     !.send = IF req[r].want THEN "flight" ELSE "result"]]
    /\ UNCHANGED <<flagVars, devVars, taskVars, lockVars, lsnVars, envVars, frameVars, args, out>>

\* ... the application reply to an acknowledged packet arrives and the send
\* returns it
SendReply(r) ==
    /\ req[r].send = "flight" /\ req[r].want
    /\ req[r].acked /\ req[r].errq = <<>> /\ req[r].abort = "get"
    /\ req' = [req EXCEPT ![r].send = "result"]
    /\ UNCHANGED <<flagVars, devVars, taskVars, lockVars, lsnVars, envVars, frameVars, args, out>>

\* ... the send raises a transport error
SendFail(r) ==
    /\ req[r].send = "flight"
    /\ req' = [req EXCEPT ![r].send = "failed"]
    /\ UNCHANGED <<flagVars, devVars, taskVars, lockVars, lsnVars, envVars, frameVars, args, out>>

\* error_queue.get() of abort_on_error_task has an error to return
AbortReady(q) == q.abort = "get" /\ q.errq # <<>>

\* abort_on_error_task: error_queue.get() returns the error that was put
AbortRun(r) ==
    /\ AbortReady(req[r])
    /\ req' = [req EXCEPT ![r].abort = "done",
                          ![r].got = Head(req[r].errq),
                          ![r].errq = Tail(req[r].errq)]
    /\ UNCHANGED <<flagVars, devVars, taskVars, lockVars, lsnVars, envVars, frameVars, args, out>>

\* the tasks of request q that are done when asyncio.wait returns
DoneTasks(q) ==
    {x \in {"abort_on_error_task"} : q.abort = "done"}
    \cup {x \in {"send_packet_task"} : q.send \in {"result", "failed"}}

\* a wait that returns at its timeout only
WaitReturnsAtTimeout(q) == q.el >= q.actual

\* asyncio.wait(..., timeout=actual_timeout, return_when=FIRST_COMPLETED)
\* returns: a task is done or the timeout has elapsed
WaitReturns(q) == DoneTasks(q) # {} \/ q.el >= q.actual

\* a timeout that is always reported as one of the acknowledgement
TimeoutOutcomeNoAck(acked) == "ack_timeout"

\* the two MeshInterfaceRequestError of the timeout branch
TimeoutOutcome(acked) == IF ~acked THEN "ack_timeout" ELSE "response_timeout"

\* the try block: what the request returns or raises. result() of a send
\* that raised raises the same error again.
Outcome(q) ==
    IF DoneTasks(q) = {"abort_on_error_task"} THEN "routing_error"
    ELSE IF DoneTasks(q) = {"send_packet_task"}
      THEN IF q.send = "result" THEN "result" ELSE "transport_error"
    ELSE TimeoutOutcome(q.acked)

\* a cancel() that does nothing
CancelNothing(s, idle) == s

\* p.cancel() on a task in state s that is pending in state idle
CancelTask(s, idle) == IF s = idle THEN "cancelling" ELSE s

\* a loop that leaves the send alone
CancelErrorWaitOnly(r) ==
    [m \in Reqs |-> IF m # r THEN req[m]
                    ELSE [req[m] EXCEPT !.abort = CancelTask(@, "get")]]

\* `finally: for p in pending: p.cancel()`
CancelPending(r) ==
    [m \in Reqs |-> IF m # r THEN req[m]
                    ELSE [req[m] EXCEPT !.abort = CancelTask(@, "get"),
                                        !.send = CancelTask(@, "flight")]]

\* asyncio.wait returns and the request ends. An abort_on_error_task that
\* on_ack made ready runs before the request does.
ReqResume(r) ==
    /\ req[r].st = "wait" /\ WaitReturns(req[r]) /\ ~AbortReady(req[r])
    /\ LET q == req[r] IN
       req' = [CancelPending(r) EXCEPT
                  ![r].st = "ended",
                  ![r].done = DoneTasks(q),
                  ![r].outcome = Outcome(q)]
    /\ UNCHANGED <<flagVars, devVars, taskVars, lockVars, lsnVars, envVars, frameVars, args, out>>

\* the cancellations reach the tasks that were pending, and nothing of the
\* request is left
RaceOver(r) ==
    /\ req[r].st = "ended"
    /\ req' = [req EXCEPT ![r] = Gone]
    /\ UNCHANGED <<flagVars, devVars, taskVars, lockVars, lsnVars, envVars, frameVars, args, out>>

\* Time passes for the suspended requests, one step of the clock at a time.
\* The event loop runs what can run before it sleeps: no time passes while a
\* wait can return or a task of a request can take a step.
Quantum == PerCallTimeout
Tick ==
    /\ \E r \in Reqs : req[r].st = "wait"
    /\ \A r \in Reqs :
          /\ req[r].st = "wait" => ~WaitReturns(req[r])
          /\ ~AbortReady(req[r])
          /\ req[r].st # "ended"
    /\ req' = [r \in Reqs |-> IF req[r].st = "wait"
                                THEN [req[r] EXCEPT !.el = @ + Quantum, !.aged = req[r].acked]
                                ELSE req[r]]
    /\ UNCHANGED <<flagVars, devVars, taskVars, lockVars, lsnVars, envVars, frameVars, args, out>>

\* --------------------------------------------------------- channel selection
Targets == {LocalNum, 2, 3}              \* node numbers a caller addresses
Names == {"", "admin", "Admin", "chat"}  \* channel names
\* a lower() that leaves the name as it is
LowerNothing(s) == s

\* str.lower()
Lower(s) == IF s = "Admin" THEN "admin" ELSE s

\* The channel lists of a device: the channel at position i has index i - 1,
\* the channel of index 0 is the primary one, every other channel is a
\* secondary one or disabled.
ChannelAt(i) ==
    [index : {i - 1},
     role : IF i = 1 THEN {"PRIMARY"} ELSE {"SECONDARY", "DISABLED"},
     name : Names]
ChannelLists ==
    UNION {{s \in [1..n -> UNION {ChannelAt(i) : i \in 1..n}] :
               \A i \in 1..n : s[i] \in ChannelAt(i)} : n \in 0..MaxChannels}

\* _node_database.get(n, {}).get("hasPKC", False)
HasPKC(n) == n \in args.pkc

\* `for c in self._connected_node_channels or []`: the index of the first
\* channel whose lowered name is "admin", NoIndex when the loop ends
FirstAdmin ==
    LET hits == {i \in 1..Len(args.chans) : Lower(args.chans[i].name) = "admin"}
    IN IF hits = {} THEN NoIndex
       ELSE args.chans[CHOOSE i \in hits : \A j \in hits : i <= j].index

\* the selection without its first test
AdminIndexOfAnyNode(node) ==
    IF info = NoNum THEN AttributeError
    ELSE IF HasPKC(info) /\ HasPKC(node) THEN PKC_CHANNEL_INDEX
    ELSE IF FirstAdmin # NoIndex THEN FirstAdmin
    ELSE 0

\* _get_admin_channel_index(node); AttributeError when the local node number
\* is not known
_get_admin_channel_index(node) ==
    IF info = NoNum THEN AttributeError
    ELSE IF node = info THEN 0
    ELSE IF HasPKC(info) /\ HasPKC(node) THEN PKC_CHANNEL_INDEX
    ELSE IF FirstAdmin # NoIndex THEN FirstAdmin
    ELSE 0

\* send_admin_message_await_response(node) and send_admin_message(node), up to
\* the submission of the packet: node None stands for the local node
AdminRequest(node) ==
    /\ LET to == IF node = NoNum THEN info ELSE node
           ix == _get_admin_channel_index(to)
       IN out' = [NoOut EXCEPT !.op = "admin", !.node = to, !.ret = ix,
                               !.raised = (ix = AttributeError),
                               !.error = IF ix = AttributeError THEN "AttributeError" ELSE "none",
                               !.submitted = (ix # AttributeError),
                               !.channel = IF ix = AttributeError THEN NoIndex ELSE ix]
    /\ UNCHANGED <<flagVars, devVars, taskVars, lockVars, lsnVars, envVars, frameVars, req, args>>

\* `self._connected_node_channels[i]` raises (IndexError) or
\* `len(self._connected_node_channels) < i` holds
OutOfRange(i) == Len(args.chans) <= i
IsDisabled(i) == args.chans[i + 1].role = "DISABLED"

\* the checks of send_text_message that let a disabled channel through
ChannelErrorNoRole(channel_index) ==
    IF channel_index = NoIndex THEN "none"
    ELSE IF Len(args.chans) < channel_index THEN "Unavailable channel index"
    ELSE IF Len(args.chans) = channel_index THEN "IndexError"
    ELSE "none"

\* `if channel_index is not None:` of send_text_message: what it raises, "none"
\* when it lets the message through. The two ValueErrors are named by their
\* message; `self._connected_node_channels[channel_index]` raises IndexError
\* at the index equal to the length of the list.
ChannelError(channel_index) ==
    IF channel_index = NoIndex THEN "none"
    ELSE IF Len(args.chans) < channel_index THEN "Unavailable channel index"
    ELSE IF Len(args.chans) = channel_index THEN "IndexError"
    ELSE IF IsDisabled(channel_index) THEN "Channel is disabled"
    ELSE "none"

\* send_text_message(destination, channel_index=ci), up to the submission of
\* the packet: a MeshNode destination drops the channel index, a MeshChannel
\* destination gives its own
SendText(dest, ci) ==
    /\ LET channel_index == IF dest = "MeshNode" THEN NoIndex ELSE ci
           error == ChannelError(channel_index)
       IN out' = [NoOut EXCEPT !.op = "text", !.ret = channel_index,
                               !.raised = (error # "none"),
                               !.error = error,
                               !.submitted = (error = "none"),
                               !.channel = IF error # "none" THEN NoIndex ELSE channel_index]
    /\ UNCHANGED <<flagVars, devVars, taskVars, lockVars, lsnVars, envVars, frameVars, req, args>>

\* find_channel(index=ix, name=name): the channel at that index unless it is
\* disabled or its name is not the one asked for; the lookup raises
\* (IndexError) at the index just past the list
FindByIndex(ix, name) ==
    /\ LET found == /\ info # NoNum
                    /\ ~OutOfRange(ix)
                    /\ ~IsDisabled(ix)
                    /\ (name # NoName => args.chans[ix + 1].name = name)
       IN out' = [NoOut EXCEPT !.op = "find", !.name = name,
                               !.raised = (info # NoNum /\ Len(args.chans) = ix),
                               !.error = IF info # NoNum /\ Len(args.chans) = ix
                                           THEN "IndexError" ELSE "none",
                               !.found = found,
                               !.ret = IF found THEN ix ELSE NoIndex]
    /\ UNCHANGED <<flagVars, devVars, taskVars, lockVars, lsnVars, envVars, frameVars, req, args>>

\* find_channel(name=name): the first enabled channel of that name; the
\* MeshChannel it returns carries the index argument, which is None
FindByName(name) ==
    /\ LET found == /\ info # NoNum
                    /\ \E i \in 1..Len(args.chans) :
                           args.chans[i].name = name /\ args.chans[i].role # "DISABLED"
       IN out' = [NoOut EXCEPT !.op = "find", !.name = name, !.found = found]
    /\ UNCHANGED <<flagVars, devVars, taskVars, lockVars, lsnVars, envVars, frameVars, req, args>>

\* ------------------------------------------------------------ specifications
\* the steps start() is made of
Startup ==
    \/ \E e \in Executors : StartConnectOk(e)
    \/ \E g \in 1..MaxGen : FirstRun(g)
    \/ \E t \in CfgTasks : CfgDone(t)

\* the steps stop() is made of
Shutdown ==
    \/ \E e \in Executors : StopWait1Done(e)
    \/ \E e \in Executors : StopSendDisconnect(e)
    \/ \E e \in Executors : StopDisconnect(e)
    \/ \E e \in Executors : CancelRun(e)
    \/ \E t \in Activities : DeliverCancel(t)

Session == Startup \/ Shutdown

\* consumers open and close their streams
Consumers ==
    \/ \E l \in 1..MaxListeners : Register(l)
    \/ \E l \in 1..MaxListeners : Unregister(l)

\* the heartbeat interval runs out and the heartbeat is answered
Heartbeat ==
    \/ \E t \in HbTasks : HbSleepDone(t)
    \/ \E t \in HbTasks : HbCallOk(t)

\* transport failures and the reconnection loop they start, with the backoff
\* drawn from D
Reconnection(D) ==
    \/ \E t \in HbTasks : HbCallFail(t)
    \/ \E t \in IngTasks : IngListenFail(t)
    \/ \E t \in LoopTasks : RcLockAcquired(t)
    \/ \E t \in LoopTasks : RcReconnectTimeout(t)
    \/ \E t \in LoopTasks, did \in BOOLEAN : RcReconnectOk(t, did)
    \/ \E t \in LoopTasks, d \in D : RcFail(t, d)
    \/ \E t \in LoopTasks : RcConfigOk(t)
    \/ \E t \in LoopTasks : RcConfigTimeout(t)
    \/ \E t \in LoopTasks : RcBackoffDone(t)

\* inbound frames of the kinds in F
Ingestion(F) ==
    \/ \E t \in IngTasks, f \in F : IngFrame(t, f)
    \/ \E t \in IngTasks : IngStream(t)
    \/ \E t \in IngTasks : IngPort(t)

\* what happens only when a restart task starts the session again while
\* activities of the session before are alive: stop() finds background tasks
\* its first snapshot did not hold, the listen lock and the config lock are busy
Overlap ==
    \/ \E e \in Executors : StopWait2Done(e)
    \/ \E t \in IngTasks : IngLockAcquired(t)
    \/ \E t \in IngTasks : CoolDone(t)
    \/ \E t \in CfgTasks : CfgLockAcquired(t)

\* the owner starts the session once
FirstStart == gen = 0 /\ UserStart

\* The session on an unreliable transport: connect(), heartbeats, the inbound
\* sequence and request_config() fail, the reconnection loop runs with the
\* shortest and the longest backoff, the device sends its identity and its
\* channels, the owner starts and stops the session.
MainFrames == {f \in Frames : f.kind \in {"my_info", "channel"}}
Next ==
    \/ UserStart
    \/ UserStop
    \/ Session
    \/ Heartbeat
    \/ Reconnection({ReconnectDelayMin, ReconnectDelayMax})
    \/ Ingestion(MainFrames)
    \/ \E e \in Executors : StartConnectFail(e)
    \/ \E t \in CfgTasks : CfgFail(t)

Spec == Init /\ [][Next]_vars

\* The reconnection loop of one started session with every backoff of
\* random.randint(5, 30).
NextBackoff ==
    \/ FirstStart
    \/ Startup
    \/ Heartbeat
    \/ Reconnection(ReconnectDelays)

SpecBackoff == Init /\ [][NextBackoff]_vars

\* The session on a healthy transport with a device that reboots, within one
\* heartbeat interval: reboot notifications and text packets arrive, the
\* restart and port-listener background tasks run, the owner starts and stops
\* the session.
RebootFrames == {f \in Frames : f.kind = "rebooted" \/ (f.kind = "packet" /\ f.port = "text" /\ f.ok)}
NextReboot ==
    \/ UserStart
    \/ UserStop
    \/ Session
    \/ Ingestion(RebootFrames)
    \/ Overlap
    \/ \E t \in RstTasks : RstRun(t)
    \/ \E t \in AppTasks : AppRun(t)
    \/ \E t \in AppTasks : AppEnd(t)

SpecReboot == Init /\ [][NextReboot]_vars

\* The device info of one started session on a healthy transport, within one
\* heartbeat interval: the device sends its identity, its metadata and its
\* channels, the owner stops the session.
InfoFrames == {f \in Frames : f.kind \in {"my_info", "metadata", "channel"}}
NextInfo ==
    \/ FirstStart
    \/ UserStop
    \/ Session
    \/ Ingestion(InfoFrames)

SpecInfo == Init /\ [][NextInfo]_vars

\* The fan-out of every kind of inbound frame but the reboot notification to
\* the stream listeners and the port listeners of one started session on a
\* healthy transport, within one heartbeat interval; consumers open and close
\* their streams at any time.
NextFan ==
    \/ FirstStart
    \/ Startup
    \/ Ingestion(Frames \ {f \in Frames : f.kind = "rebooted"})
    \/ \E t \in AppTasks : AppRun(t)
    \/ \E t \in AppTasks : AppEnd(t)
    \/ Consumers

SpecFan == Init /\ [][NextFan]_vars

\* One started session on an unreliable transport that its owner stops, while
\* consumers open and close their streams.
NextStop ==
    \/ FirstStart
    \/ UserStop
    \/ Session
    \/ Heartbeat
    \/ Reconnection({ReconnectDelayMin, ReconnectDelayMax})
    \/ Consumers

SpecStop == Init /\ [][NextStop]_vars

\* A session on a healthy transport that its owner starts, stops and starts
\* again.
NextStartAgain ==
    \/ UserStart
    \/ UserStop
    \/ Session
    \/ Heartbeat

SpecStartAgain == Init /\ [][NextStartAgain]_vars

\* The supervision of the heartbeat and the ingestion activity of one started
\* session: the transport fails, the processing of a packet fails, the owner
\* stops the session.
TextFrames == {f \in Frames : f.kind = "packet" /\ f.port = "text" /\ f.ok}
NextSupervise ==
    \/ FirstStart
    \/ UserStop
    \/ Session
    \/ Heartbeat
    \/ Reconnection({ReconnectDelayMin})
    \/ Ingestion(TextFrames)
    \/ \E t \in IngTasks : IngPortFail(t)
    \/ \E t \in IngTasks : CoolDone(t)
    \/ \E e \in Executors : StopWait2Done(e)
    \/ \E t \in AppTasks : AppRun(t)
    \/ \E t \in AppTasks : AppEnd(t)

SpecSupervise == Init /\ [][NextSupervise]_vars

\* The config and module-config frames of one started session on a healthy
\* transport, within one heartbeat interval.
NextConfig ==
    \/ FirstStart
    \/ Startup
    \/ \E t \in IngTasks, m \in ConfigFrames : ConfigFrame(t, m)
    \/ \E t \in IngTasks : IngStream(t)
    \/ \E t \in IngTasks : IngPort(t)

SpecConfig == Init /\ [][NextConfig]_vars

\* Correlated requests on one started session: callers make requests with and
\* without want_response and with and without a timeout of their own, the
\* Connection capability acknowledges, answers and fails them, time passes.
Requests ==
    \/ \E r \in Reqs, w \in BOOLEAN, tm \in {Undefined, PerCallTimeout} : ReqStart(r, w, tm)
    \/ \E r \in Reqs, e \in {ErrNone} \cup Errors : SendAck(r, e)
    \/ \E r \in Reqs : SendReply(r)
    \/ \E r \in Reqs : SendFail(r)
    \/ \E r \in Reqs : AbortRun(r)
    \/ \E r \in Reqs : ReqResume(r)
    \/ \E r \in Reqs : RaceOver(r)
    \/ Tick

NextRequest ==
    \/ FirstStart
    \/ Startup
    \/ Requests

SpecRequest == Init /\ [][NextRequest]_vars

\* The selection of a channel for admin requests, text messages and channel
\* lookups, on every local node number, node database and channel list within
\* the bounds.
InitSelect ==
    /\ InitSession
    /\ info \in {NoNum, LocalNum}
    /\ args \in [pkc : SUBSET {LocalNum, 2}, chans : ChannelLists]

NextSelect ==
    \/ \E n \in Targets \cup {NoNum} : AdminRequest(n)
    \/ \E d \in {"MeshNode", "MeshChannel", "int"}, ci \in {NoIndex} \cup 0..MaxChannels : SendText(d, ci)
    \/ \E ix \in 0..MaxChannels, nm \in Names \cup {NoName} : FindByIndex(ix, nm)
    \/ \E nm \in Names : FindByName(nm)

SpecSelect == InitSelect /\ [][NextSelect]_vars

\* The port listeners of one started session on a healthy transport, within
\* one heartbeat interval: packets arrive, their listeners run, end, raise or
\* never finish, consumers open and close their streams.
PacketFrames == {f \in Frames : f.kind = "packet"}
NextDispatch ==
    \/ FirstStart
    \/ Startup
    \/ Ingestion(PacketFrames)
    \/ \E t \in AppTasks : AppRun(t)
    \/ \E t \in AppTasks : AppEnd(t)
    \/ \E t \in AppTasks : AppFail(t)
    \/ Consumers

SpecDispatch == Init /\ [][NextDispatch]_vars

\* A session on a healthy transport that its owner starts and stops in any
\* order, start() on a running session included.
NextStartTwice ==
    \/ UserStart
    \/ StartWhileRunning
    \/ UserStop
    \/ Session
    \/ Heartbeat
    \/ \E t \in CfgTasks : CfgLockAcquired(t)

SpecStartTwice == Init /\ [][NextStartTwice]_vars

\* Connection.request_config() of the config sync returns when the device's
\* answer is complete, which is after its identity frame was ingested
CfgDoneAfterDump(t) == Dumped(t) /\ CfgDone(t)

\* ... and so does the one of the reconnection loop
RcConfigOkAfterDump(t) == Dumped(t) /\ RcConfigOk(t)

\* The identity of the device over config requests that complete only once
\* their answer was ingested: the owner starts the session, on a running
\* session too, heartbeats fail and the reconnection loop reconnects and
\* requests the config, the device sends its identity.
NextIdentity ==
    \/ UserStart
    \/ StartWhileRunning
    \/ \E e \in Executors : StartConnectOk(e)
    \/ \E g \in 1..MaxGen : FirstRun(g)
    \/ \E t \in CfgTasks : CfgLockAcquired(t)
    \/ \E t \in CfgTasks : CfgDoneAfterDump(t)
    \/ Heartbeat
    \/ \E t \in HbTasks : HbCallFail(t)
    \/ \E t \in LoopTasks : RcLockAcquired(t)
    \/ \E t \in LoopTasks, did \in BOOLEAN : RcReconnectOk(t, did)
    \/ \E t \in LoopTasks : RcConfigOkAfterDump(t)
    \/ Ingestion({f \in Frames : f.kind = "my_info"})

SpecIdentity == Init /\ [][NextIdentity]_vars

\* A session on a transport that may fail to open: the owner starts and stops
\* the session, connect() returns or raises.
NextConnect ==
    \/ UserStart
    \/ UserStop
    \/ Session
    \/ Heartbeat
    \/ \E e \in Executors : StartRaises(e)

SpecConnect == Init /\ [][NextConnect]_vars

\* the owner stops the session once
OneStop == userStops = 0 /\ UserStop

\* One started session on a healthy transport with a device that reboots, and
\* that its owner stops once: restart tasks stop and start the session while
\* the owner's stop() is under way, so that activities of two starts are alive
\* together.
NextRebootOnce ==
    \/ FirstStart
    \/ OneStop
    \/ Session
    \/ Ingestion({f \in Frames : f.kind = "rebooted"})
    \/ Overlap
    \/ \E t \in RstTasks : RstRun(t)

SpecRebootOnce == Init /\ [][NextRebootOnce]_vars

\* --------------------------------------------------------------- scheduling
\* The event loop runs every task that can run, and a call of the Connection
\* capability made by a task comes back with one of its outcomes. Nothing is
\* assumed about the session's owner, about the arrival of inbound frames or
\* about failures of the inbound sequence.
Progress(t) ==
    \/ DeliverCancel(t)
    \/ StartConnectOk(t) \/ StopWait1Done(t) \/ StopWait2Done(t)
    \/ StopSendDisconnect(t) \/ StopDisconnect(t) \/ CancelRun(t) \/ RstRun(t)
    \/ HbSleepDone(t) \/ HbCallOk(t) \/ HbCallFail(t)
    \/ RcLockAcquired(t) \/ RcReconnectTimeout(t) \/ (\E did \in BOOLEAN : RcReconnectOk(t, did))
    \/ (\E d \in {ReconnectDelayMin, ReconnectDelayMax} : RcFail(t, d))
    \/ RcConfigOk(t) \/ RcConfigTimeout(t) \/ RcBackoffDone(t)
    \/ IngStream(t) \/ IngPort(t) \/ IngLockAcquired(t) \/ CoolDone(t)
    \/ CfgLockAcquired(t) \/ CfgDone(t)
    \/ AppRun(t) \/ AppEnd(t)

Fairness ==
    /\ \A t \in Tasks : WF_vars(Progress(t))
    /\ \A g \in 1..MaxGen : WF_vars(FirstRun(g))

\* SpecStop under the scheduling above.
FairStop == SpecStop /\ Fairness

\* One started session on a healthy transport with a device that reboots.
NextRestart ==
    \/ FirstStart
    \/ UserStop
    \/ Session
    \/ Ingestion({f \in Frames : f.kind = "rebooted"})
    \/ Overlap
    \/ \E t \in RstTasks : RstRun(t)

FairRestart == Init /\ [][NextRestart]_vars /\ Fairness

\* ------------------------------------------------------------------- claims
StopPcs == {"stop_wait1", "stop_wait2", "stop_senddisc", "stop_disc"}

\* C1: stop() called on a session whose running flag is not set is a no-op: it
\* leaves the running flag, the ready flag, the stream-listener list and the
\* task sets unchanged, cancels no activity and makes no call on the
\* Connection capability (the caller is back where it was, no task has moved).
C1_StopNotRunningIsNoop ==
    [][(userStops' = userStops + 1 /\ ~running) =>
          /\ UNCHANGED <<running, ready, listeners, closed, processing, background>>
          /\ UNCHANGED <<cancelReq, cancelTodo, waitFor, connected>>
          /\ pc' = pc]_vars

\* a second stop() on a session that was never started and has a stream listener
C1_Witness == userStops >= 2 /\ gen = 0 /\ listeners # <<>>

\* C2: when the owner's stop() calls disconnect() on the Connection capability,
\* every activity (heartbeat, ingestion, config-sync, restart, port listener)
\* has terminated.
C2_AllTerminatedBeforeDisconnect ==
    pc[User] = "stop_disc" => \A t \in Activities : ~Alive(t)

\* C3: a stop() of the owner that is in progress eventually returns with the
\* Connection capability closed.
C3_StopReturns ==
    (pc[User] \in StopPcs) ~> (pc[User] = "idle" /\ ~connected)

\* the restart task of frame k has stopped and started the session again
Restarted(k) ==
    /\ pc[<<"rst", k>>] = "done" /\ running
    /\ \E g \in 1..MaxGen : Alive(<<"hb", g>>) /\ Alive(<<"ing", g>>)

\* C4: after a reboot notification is ingested, its restart task eventually
\* has stopped the session and started it again, with the running flag set and
\* a heartbeat and an ingestion activity alive (unless the owner stops the
\* session, or the bound on start() calls is reached).
C4_RestartCompletes ==
    \A k \in 1..MaxFrames :
        (pc[<<"rst", k>>] = "start" /\ userStops = 0)
            ~> (Restarted(k) \/ userStops > 0 \/ gen = MaxGen)

\* C5: at most one activity is inside Connection.reconnect() or the config
\* request that follows it.
C5_OneReconnectionAtATime ==
    Cardinality({t \in LoopTasks : pc[t] \in {"rc_reconnect", "rc_config"}}) <= 1

\* one activity in the config request of the loop while another waits for the lock
C5_Witness == \E a, b \in LoopTasks : pc[a] = "rc_config" /\ pc[b] = "rc_lock"

\* C6: in the reconnection loop a retry after a timeout (of reconnect() or of
\* the config request) happens with no sleep, a failure that is no timeout is
\* followed by a sleep, and every sleep of the loop has an integer length in
\* [5, 30].
C6_BackoffOnlyAfterFailure ==
    [][\A t \in LoopTasks :
          /\ (RcReconnectTimeout(t) \/ RcConfigTimeout(t))
                => (pc'[t] # "rc_backoff" /\ delay'[t] = 0)
          /\ (pc[t] \in {"rc_reconnect", "rc_config"} /\ pc'[t] = "rc_backoff")
                => delay'[t] \in ReconnectDelayMin..ReconnectDelayMax
          /\ (pc'[t] = "rc_backoff") => (pc[t] \in {"rc_reconnect", "rc_config", "rc_backoff"})]_vars

\* the ingestion activity in the longest backoff, after a config-request
\* timeout made it retry with force set
C6_Witness ==
    \E t \in IngTasks : pc[t] = "rc_backoff" /\ delay[t] = ReconnectDelayMax /\ force[t]

C8_ResetAtEveryHandshake ==
    [][\A t \in LoopTasks \cup CfgTasks :
          (pc[t] \notin {"rc_config", "cfg_req"} /\ pc'[t] \in {"rc_config", "cfg_req"})
            => (info' = NoNum /\ metadata' = NoNum /\ channels' = <<>>)]_vars

In(x) == \E i \in 1..Len(log) : log[i] = x
Index(x) == CHOOSE i \in 1..Len(log) : log[i] = x
Before(x, y) == (In(x) /\ In(y)) => Index(x) < Index(y)
\* the events of a frame come after the events of the frames before it
ArrivalOrder == \A i, j \in 1..Len(log) : i < j => log[i][2] <= log[j][2]

\* C9 as stated: frames are processed in arrival order and, for each frame,
\* every Store update comes before the delivery to the stream listeners, and
\* that delivery before the dispatch to the port listeners.
C9_StoreStreamPort ==
    /\ ArrivalOrder
    /\ \A k \in 1..MaxFrames :
          /\ Before(<<"store", k>>, <<"stream", k>>)
          /\ Before(<<"merge", k>>, <<"stream", k>>)
          /\ Before(<<"stream", k>>, <<"port", k>>)

\* C9: frames are processed in arrival order and, for each frame, the update of
\* the device info and of the node record comes before the delivery to the
\* stream listeners, the delivery comes before the telemetry merge into the
\* node database and before the dispatch to the port listeners, and the
\* telemetry merge comes before the dispatch.
C9_StoreStreamMergePort ==
    /\ ArrivalOrder
    /\ \A k \in 1..MaxFrames :
          /\ Before(<<"store", k>>, <<"stream", k>>)
          /\ Before(<<"store", k>>, <<"port", k>>)
          /\ Before(<<"stream", k>>, <<"merge", k>>)
          /\ Before(<<"stream", k>>, <<"port", k>>)
          /\ Before(<<"merge", k>>, <<"port", k>>)

\* a telemetry packet of a known node was delivered, merged and dispatched
C9_Witness ==
    \E k \in 1..MaxFrames : In(<<"stream", k>>) /\ In(<<"merge", k>>) /\ In(<<"port", k>>)

Count(q, k) == Cardinality({i \in 1..Len(q) : q[i] = k})

\* C10: no stream listener receives a frame twice, and once the delivery of a
\* frame is over every listener registered at its ingestion has received it
\* exactly once and no other listener has received it.
C10_EachListenerOnce ==
    /\ \A l \in 1..MaxListeners, k \in 1..MaxFrames : Count(queue[l], k) <= 1
    /\ \A t \in IngTasks :
          pc[t] = "ing_port" =>
             \A l \in 1..MaxListeners :
                Count(queue[l], cur.seq) = IF l \in Range(listeners) THEN 1 ELSE 0

\* the second frame delivered to two listeners, one of them registered after
\* the first frame
C10_Witness ==
    /\ \E t \in IngTasks : pc[t] = "ing_port"
    /\ Len(listeners) = 2
    /\ \E a, b \in 1..MaxListeners : queue[a] = <<1, 2>> /\ queue[b] = <<2>>

\* ------------------------------------------------------- claims C11 to C17
Ended(r) == req[r].st = "ended"
\* the request ended because its timeout elapsed with no task done
TimedOut(r) == Ended(r) /\ req[r].done = {}
\* an acknowledgement with an error code other than NONE was observed
ErrorAcked(r) == req[r].errq # <<>> \/ req[r].got # ErrNone
ErrorCode(r) == IF req[r].errq # <<>> THEN Head(req[r].errq) ELSE req[r].got

\* C11 as stated: a request whose acknowledgement carried an error code other
\* than NONE while its send was in flight, and that ended before its timeout,
\* failed with a routing error carrying that code.
C11_ErrorAckIsRoutingError ==
    \A r \in Reqs :
        (Ended(r) /\ ErrorAcked(r) /\ req[r].el < req[r].actual) =>
            (req[r].outcome = "routing_error" /\ req[r].got = ErrorCode(r))

\* C12: a request that timed out failed with the acknowledgement timeout if
\* and only if no acknowledgement was observed, and with the response timeout
\* if and only if one was observed (its send had not completed).
C12_TimeoutKind ==
    \A r \in Reqs :
        TimedOut(r) =>
            /\ req[r].outcome \in {"ack_timeout", "response_timeout"}
            /\ req[r].outcome = "ack_timeout" <=> ~req[r].acked
            /\ req[r].outcome = "response_timeout" <=>
                   (req[r].acked /\ req[r].send \notin {"result", "failed"})

\* a request timed out after its acknowledgement, waiting for the reply
C12_Witness ==
    \E r \in Reqs : TimedOut(r) /\ req[r].acked /\ req[r].outcome = "response_timeout"

\* C13 as stated: a request without a timeout of its own that never received
\* an acknowledgement and timed out failed with the acknowledgement timeout
\* after the ack-timeout duration, with and without want_response.
C13_AckTimeoutAfterAckDuration ==
    \A r \in Reqs :
        (TimedOut(r) /\ req[r].timeout = Undefined /\ ~req[r].acked) =>
            (req[r].outcome = "ack_timeout" /\ req[r].el = AckTimeout)

\* C14: a request with want_response=false that received an error-free
\* acknowledgement returned the send's result at the moment of the
\* acknowledgement, within the ack timeout, before the response timeout.
C14_AckedRequestSucceedsAtOnce ==
    \A r \in Reqs :
        (Ended(r) /\ ~req[r].want /\ req[r].acked /\ ~ErrorAcked(r)) =>
            /\ req[r].outcome = "result"
            /\ ~req[r].aged
            /\ req[r].el <= AckTimeout /\ req[r].el < ResponseTimeout

\* such a request returned its result some time after the call and before its
\* timeout
C14_Witness ==
    \E r \in Reqs :
        /\ Ended(r) /\ ~req[r].want /\ req[r].acked /\ req[r].outcome = "result"
        /\ req[r].el > 0 /\ req[r].el < req[r].actual

\* C15 as stated: after a request failed with a timeout its send_mesh_packet
\* operation is still in progress or completes on its own.
C15_TimeoutLeavesSendAlone ==
    \A r \in Reqs : TimedOut(r) => req[r].send \in {"flight", "result", "failed"}

\* C15: after a request failed with a timeout its send_mesh_packet operation
\* and its error-wait are cancelled, and the Connection capability is still
\* open.
C15_TimeoutCancelsSend ==
    \A r \in Reqs :
        TimedOut(r) =>
            /\ req[r].send = "cancelling" /\ req[r].abort = "cancelling"
            /\ connected

\* a request with want_response timed out with no acknowledgement
C15_Witness ==
    \E r \in Reqs : TimedOut(r) /\ req[r].want /\ ~req[r].acked /\ req[r].send = "cancelling"

\* C16: when a request has ended, each of its two tasks is done or has been
\* cancelled, whatever the outcome.
C16_NothingLeftPending ==
    \A r \in Reqs :
        Ended(r) =>
            /\ req[r].abort \in {"done", "cancelling"}
            /\ req[r].send \in {"result", "failed", "cancelling"}

\* a request failed with a routing error while its send was still in flight
C16_Witness ==
    \E r \in Reqs :
        Ended(r) /\ req[r].outcome = "routing_error" /\ req[r].send = "cancelling"

\* C17 as stated: no request surfaces the transport error of its send to its
\* caller.
C17_NoTransportErrorSurfaces ==
    \A r \in Reqs : Ended(r) => req[r].outcome # "transport_error"

\* ------------------------------------------------------- claims C18 to C20
AdminNames == {"admin", "Admin"}
Selected == out.op = "admin" /\ ~out.raised
AdminChannels == {i \in 1..Len(args.chans) : args.chans[i].name \in AdminNames}
BothPKC == info \in args.pkc /\ out.node \in args.pkc

\* C18: the admin channel selected for the connected device itself is channel
\* 0, whatever the channel list and the node database.
C18_LocalAdminChannelIsZero ==
    (Selected /\ out.node = info) => out.ret = 0

\* the device itself asked for, while it has hasPKC and a channel named
\* "admin" sits at another index
C18_Witness ==
    /\ Selected /\ out.node = info /\ out.ret = 0
    /\ info \in args.pkc
    /\ \E i \in AdminChannels : args.chans[i].index # 0

\* C19: the admin channel selected for another node is 8 exactly when the
\* records of the local device and of the target both have hasPKC; otherwise
\* it is the index of the first channel named "admin" in any case, and 0
\* when there is none.
C19_RemoteAdminChannel ==
    (Selected /\ out.node # info) =>
        /\ (out.ret = PKC_CHANNEL_INDEX) <=> BothPKC
        /\ (~BothPKC /\ AdminChannels # {}) =>
               \E i \in AdminChannels :
                   /\ \A j \in AdminChannels : i <= j
                   /\ out.ret = args.chans[i].index
        /\ (~BothPKC /\ AdminChannels = {}) => out.ret = 0

\* another node asked for, one side without hasPKC, and the channel "Admin"
\* at index 1 selected
C19_Witness ==
    /\ Selected /\ out.node # info /\ ~BothPKC
    /\ Len(args.chans) >= 2 /\ args.chans[2].name = "Admin"
    /\ args.chans[1].name \notin AdminNames
    /\ out.ret = 1

DisabledIndexes == {args.chans[i].index : i \in {k \in 1..Len(args.chans) : args.chans[k].role = "DISABLED"}}

\* C20: no packet is submitted with the index of a disabled channel, by a
\* text message or by an admin request, and no channel found by find_channel
\* is a disabled one.
C20_NoDisabledChannelSelected ==
    /\ out.submitted => out.channel \notin DisabledIndexes
    /\ (out.op = "find" /\ out.found) =>
           /\ out.ret \notin DisabledIndexes
           /\ \E i \in 1..Len(args.chans) :
                  /\ args.chans[i].role # "DISABLED"
                  /\ out.name # NoName => args.chans[i].name = out.name
                  /\ out.ret # NoIndex => args.chans[i].index = out.ret

\* ------------------------------------------------------- claims C21 to C30
\* the text message was given the index of a channel of the list
TextAt(i) == out.op = "text" /\ out.ret = i /\ i \in 0..(Len(args.chans) - 1)

\* C21: send_text_message with the index of a disabled channel raises the
\* validation error of a disabled channel and submits no packet.
C21_DisabledChannelRejected ==
    \A i \in 0..MaxChannels :
        (TextAt(i) /\ args.chans[i + 1].role = "DISABLED") =>
            /\ out.error = "Channel is disabled"
            /\ ~out.submitted /\ out.channel = NoIndex

\* a text message for the disabled second channel of the list was rejected
C21_Witness ==
    /\ TextAt(1) /\ args.chans[2].role = "DISABLED"
    /\ out.raised /\ ~out.submitted

\* C22: send_text_message with a channel index that is no position of the
\* channel list, the length of the list included, raises the validation error
\* of an unavailable channel index and submits no packet.
C22_InvalidIndexRejected ==
    (out.op = "text" /\ out.ret # NoIndex /\ out.ret >= Len(args.chans)) =>
        /\ out.error = "Unavailable channel index"
        /\ ~out.submitted

\* the sub-messages ingested so far that carried sub-field f
Carried(kind, f) == {i \in 1..Len(inbound) : inbound[i].kind = kind /\ inbound[i].field = f}
\* the value of the last of them, the initial value when there is none
LastSeen(kind, f) ==
    IF Carried(kind, f) = {} THEN 0
    ELSE inbound[CHOOSE i \in Carried(kind, f) : \A j \in Carried(kind, f) : j <= i].val

\* C23: after any sequence of config and module-config sub-messages each
\* sub-field of the two snapshots holds the value of the last sub-message that
\* carried it, and its initial value when none did; the snapshot is therefore
\* the same however the updates of different sub-fields are interleaved.
C23_LastSeenPerSubField ==
    /\ \A f \in LocalFields : local_config[f] = LastSeen("config", f)
    /\ \A f \in ModuleFields : module_config[f] = LastSeen("moduleConfig", f)

\* a sub-field was updated twice with another sub-field of the same snapshot
\* updated in between
C23_Witness ==
    /\ Len(inbound) = 3
    /\ inbound[1].kind = "config" /\ inbound[2].kind = "config" /\ inbound[3].kind = "config"
    /\ inbound[1].field = inbound[3].field /\ inbound[1].val # inbound[3].val
    /\ inbound[2].field # inbound[1].field
    /\ local_config[inbound[3].field] = inbound[3].val
    /\ local_config[inbound[2].field] = inbound[2].val

AliveOf(T) == {t \in T : Alive(t)}

\* C24: once start() has returned for the second time or later (the owner
\* stopped the session in between) and while the running flag is set, exactly
\* one heartbeat and one ingestion activity are alive, those of this start(),
\* its config-sync task has been launched, and the ready flag is set when
\* that task has completed.
C24_StartAfterStop ==
    (gen >= 2 /\ running) =>
        /\ AliveOf(HbTasks) = {<<"hb", gen>>}
        /\ AliveOf(IngTasks) = {<<"ing", gen>>}
        /\ pc[<<"cfg", gen>>] # "none"
        /\ pc[<<"cfg", gen>>] = "done" => ready

\* the second session is ready after the first one ran, was ready and was
\* stopped by its owner
C24_Witness ==
    /\ gen = 2 /\ running /\ ready /\ userStops >= 1
    /\ pc[<<"cfg", 2>>] = "done" /\ pc[<<"cfg", 1>>] = "done"
    /\ pc[<<"hb", 1>>] = "cancelled" /\ pc[<<"hb", 2>>] = "hb_sleep"
    /\ ~Alive(<<"ing", 1>>) /\ pc[<<"ing", 2>>] = "ing_wait"

\* the frame whose processing ends in this step mentions a node: a node info
\* frame about it or a decoded packet from it
Mentions(f) == f.kind \in {"node_info", "packet"} /\ f.ok /\ f.num # BroadcastNum

\* C25: when the processing of a frame that mentions a node is over, be it a
\* node info frame or a decoded packet from that node, the node database
\* holds a record of the node.
C25_RecordOnFirstMention ==
    [][\A t \in IngTasks :
          (pc[t] = "ing_port" /\ pc'[t] # "ing_port" /\ Mentions(cur.frame))
              => cur.frame.num \in DOMAIN nodeDb']_vars

\* inside the try block of the reconnection loop
InLoopTry == {"rc_lock", "rc_reconnect", "rc_config"}
\* the cancellation requested for task t is delivered in this step
Cancelled(t) == t \in cancelReq /\ t \notin cancelReq'

\* C26: a cancellation delivered to a heartbeat or ingestion activity that
\* waits for the reconnect lock, is in reconnect() or is in the config request
\* of the reconnection loop ends the activity as cancelled.
C26_CancellationLeavesTheLoop ==
    [][\A t \in LoopTasks :
          (Cancelled(t) /\ pc[t] \in InLoopTry) => pc'[t] = "cancelled"]_vars

\* where a supervised activity is suspended while it is in its body
BodyPcs == {"hb_sleep", "hb_status", "hb_send", "ing_lock", "ing_wait",
            "rc_lock", "rc_reconnect", "rc_config", "rc_backoff"}

\* C27: for a heartbeat or ingestion activity: when its body raises, the
\* running flag is left as it is and the activity is in its cool-down; after
\* the cool-down it runs the body again if the running flag is set and ends
\* if it is not; a cancellation in the cool-down ends the activity without
\* raising; a cancellation in the body ends the activity as cancelled.
C27_SupervisedActivity ==
    [][\A t \in LoopTasks :
          /\ (pc[t] # "cool" /\ pc'[t] = "cool") => UNCHANGED running
          /\ (pc[t] = "cool" /\ pc'[t] # "cool" /\ ~Cancelled(t)) =>
                 IF running THEN pc'[t] \in {"ing_lock", "ing_wait"} ELSE pc'[t] = "done"
          /\ (pc[t] = "cool" /\ Cancelled(t)) => pc'[t] = "done"
          /\ (pc[t] \in BodyPcs /\ Cancelled(t)) => pc'[t] = "cancelled"]_vars

\* inside the reconnection loop
InLoop == InLoopTry \cup {"rc_backoff"}
\* task t returns from the reconnection loop to its caller in this step
LoopReturns(t) == pc[t] \in InLoop /\ pc'[t] \in {"hb_sleep", "ing_wait"}

\* C28: when the reconnection loop returns while the running flag is set, it
\* returns from a config request that completed (made after reconnect()
\* succeeded), and the ready flag is set.
C28_ReturnsAfterConfig ==
    [][\A t \in LoopTasks :
          (LoopReturns(t) /\ running') => (pc[t] = "rc_config" /\ ready')]_vars

\* C29: when the config request of the reconnection loop times out and the
\* loop goes on, the activity's next reconnect() is made with force set, and
\* force stays set for as long as the activity stays in the loop (it leaves
\* the loop when a config request completes).
C29_ForceAfterConfigTimeout ==
    [][\A t \in LoopTasks :
          /\ (pc[t] = "rc_config" /\ pc'[t] \in {"rc_lock", "rc_reconnect"}) => force'[t]
          /\ (force[t] /\ pc[t] \in InLoop /\ pc'[t] \in InLoop) => force'[t]
          /\ (pc[t] = "rc_config" /\ LoopReturns(t)) => ~force'[t]]_vars

\* the ingestion activity, whose loop started without force, calls reconnect()
\* with force set
C29_Witness ==
    \E t \in IngTasks : pc[t] = "rc_reconnect" /\ force[t]

HbCallPcs == {"hb_status", "hb_send"}
\* task t enters the reconnection loop in this step
LoopEntered(t) == pc[t] \notin InLoop /\ pc'[t] \in {"rc_lock", "rc_reconnect"}

\* C30: while the running flag is set, a heartbeat that fails (the status
\* request when ready, send_heartbeat() otherwise) puts the heartbeat activity
\* in the reconnection loop with force set, and the next heartbeat is sent
\* only after the activity has left the loop and slept; an error of the
\* inbound sequence puts the ingestion activity in the reconnection loop, and
\* the sequence is consumed again only after the activity has left the loop.
C30_FailureStartsReconnection ==
    [][/\ \A t \in HbTasks :
             /\ (running /\ (HbCallFail(t) \/ (HbSleepDone(t) /\ pc'[t] \notin HbCallPcs)))
                    => (LoopEntered(t) /\ force'[t])
             /\ (pc[t] \notin HbCallPcs /\ pc'[t] \in HbCallPcs) => pc[t] = "hb_sleep"
             /\ (pc[t] \in InLoop /\ pc'[t] = "hb_sleep") => LoopReturns(t)
       /\ \A t \in IngTasks :
             /\ (running /\ IngListenFail(t)) => LoopEntered(t)
             /\ (pc[t] \in InLoop /\ pc'[t] \notin InLoop) =>
                    pc'[t] \in {"ing_wait", "done", "cancelled"}]_vars

\* after a failed heartbeat and an error of the inbound sequence: the
\* heartbeat activity is in reconnect() with force set, the ingestion activity
\* waits for the reconnect lock without force
C30_Witness ==
    \E h \in HbTasks, i \in IngTasks :
        /\ pc[h] = "rc_reconnect" /\ force[h]
        /\ pc[i] = "rc_lock" /\ ~force[i]

\* --------------------------------------------------------- claims C31 to C40
\* the ingestion activities that are iterating Connection.listen(): waiting
\* for its next frame or processing the frame it has yielded
Listening == {t \in IngTasks : pc[t] \in {"ing_wait"} \cup MidFrame}

\* C31: at most one activity is iterating Connection.listen() in every
\* reachable state, across the self-restarts of the ingestion activity and
\* across stop() and start(); the one that iterates holds the listen lock.
C31_OneConsumer ==
    /\ Cardinality(Listening) <= 1
    /\ \A t \in Listening : lock["L"] = t

\* two ingestion activities are alive: one iterates, the other one waits for
\* the listen lock
C31_Witness ==
    \E t \in IngTasks, u \in IngTasks :
        /\ t # u
        /\ t \in Listening
        /\ pc[u] = "ing_lock"

\* C32: at most one Connection.request_config() is in flight in every
\* reachable state: the config sync started by start() and a config request
\* of the reconnection loop never overlap.
C32_OneConfigRequest == Cardinality(Requesting) <= 1

\* a step of the port-listener task a: it runs, ends, raises or is cancelled
ListenerStep(a) == pc'[a] # pc[a] /\ pc[a] \in {"start", "app_wait"}

\* C33: port listeners are background activities that ingestion does not wait
\* for: once a frame is dispatched the ingestion activity listens for the next
\* frame at once, and no step of a port listener, its failure included, moves
\* the ingestion activity (it is not ended, not restarted, not cooled down),
\* gives up the listen lock or changes what was stored, delivered or logged.
C33_ListenersNotAwaited ==
    [][/\ \A t \in IngTasks : (IngPort(t) /\ running) => pc'[t] = "ing_wait"
       /\ \A a \in AppTasks : ListenerStep(a) =>
              /\ \A t \in IngTasks : pc'[t] = pc[t]
              /\ UNCHANGED <<lock, devVars, lsnVars, frameVars, running>>]_vars

\* the listener of the first packet has not finished, or has raised, and the
\* packet after it was delivered to a stream listener and dispatched to its
\* own port listener, with the ingestion activity waiting for the next frame
C33_Witness ==
    /\ pc[<<"app", 1>>] \in {"app_wait", "failed"}
    /\ pc[<<"app", 2>>] # "none"
    /\ \E l \in Range(listeners) : 2 \in Range(queue[l])
    /\ <<"port", 2>> \in Range(log)
    /\ \E t \in IngTasks : pc[t] = "ing_wait"

\* a frame whose topology processing fails (a node info frame for the
\* broadcast number) or whose application payload is missing or does not decode
Unusable(f) ==
    \/ f.kind = "node_info" /\ f.num = BroadcastNum
    \/ f.kind = "packet" /\ ~f.ok

\* C34: an unusable frame does not raise out of the ingestion loop: step 1
\* goes on to the delivery, every stream listener registered gets the frame,
\* no port listener is started for it, the node database is left as it is, and
\* the ingestion activity then listens for the next frame: it never is in the
\* cool-down of its wrapper.
C34_UnusableFrameSkipped ==
    [][\A t \in IngTasks :
          /\ pc'[t] # "cool"
          /\ (pc[t] = "ing_wait" /\ cur' # NoFrame /\ Unusable(cur'.frame))
                => pc'[t] = "ing_stream" /\ nodeDb' = nodeDb
          /\ (pc[t] = "ing_stream" /\ Unusable(cur.frame) /\ pc'[t] # pc[t])
                => /\ pc'[t] = "ing_port"
                   /\ \A l \in Range(listeners) : queue'[l] = Append(queue[l], cur.seq)
          /\ (pc[t] = "ing_port" /\ Unusable(cur.frame) /\ pc'[t] # pc[t])
                => /\ pc'[t] = "ing_wait"
                   /\ pc'[<<"app", cur.seq>>] = "none"
                   /\ background' = background
                   /\ nodeDb' = nodeDb]_vars

\* the first frame was unusable (delivered to a stream listener, nothing
\* stored, nothing dispatched) and the frame after it was stored and delivered
C34_Witness ==
    /\ pc[<<"app", 1>>] = "none"
    /\ ~In(<<"store", 1>>) /\ ~In(<<"port", 1>>)
    /\ \E l \in 1..MaxListeners : 1 \in Range(queue[l]) /\ 2 \in Range(queue[l])
    /\ In(<<"store", 2>>)
    /\ \E t \in IngTasks : pc[t] = "ing_wait"

\* C35: the channel list is index-addressable in every reachable state: the
\* channel stored at position i carries index i, the device sending its
\* channels in index order at every config request.
C35_ChannelAtItsIndex ==
    channels # NoList => \A i \in 1..Len(channels) : channels[i] = i - 1

\* C36: whatever start() and stop() calls are made, at most one heartbeat
\* activity and at most one ingestion activity are alive in every reachable
\* state, and every alive one is in the set of tasks that stop() cancels.
C36_OneOfEachAndTracked ==
    /\ Cardinality(AliveOf(HbTasks)) <= 1
    /\ Cardinality(AliveOf(IngTasks)) <= 1
    /\ AliveOf(LoopTasks) \subseteq processing

\* C37: a request fails with a timeout error (acknowledgement timeout or
\* response timeout) only if its timeout elapsed with neither the error
\* signal nor the send completed; a request whose two tasks are done together
\* ends with the routing error or with what the send returned or raised.
C37_TimeoutErrorOnlyAfterTimeout ==
    \A r \in Reqs :
        (Ended(r) /\ req[r].outcome \in {"ack_timeout", "response_timeout"}) =>
            (req[r].done = {} /\ req[r].el >= req[r].actual)

\* C38: whenever the ready flag is set the local node identity is not nil.
C38_ReadyHasIdentity == ready => info # NoNum

\* C39: find_channel never fails and returns a channel only with the index
\* of a position of the channel list that holds an enabled channel of the
\* name asked for, when a name is given; this for the lookup by index and for
\* the lookup by name alone, whose result carries the position of the match.
C39_FoundChannelHasItsPosition ==
    out.op = "find" =>
        /\ ~out.raised
        /\ out.found =>
              /\ out.ret \in 0..(Len(args.chans) - 1)
              /\ ~IsDisabled(out.ret)
              /\ out.name # NoName => args.chans[out.ret + 1].name = out.name

\* C40: when connect() fails inside start() the failure reaches the caller
\* and nothing else happens: the running flag stays clear, the ready flag, the
\* task sets and the Connection capability are as they were and no activity is
\* created or moved; a stop() called while the running flag is clear, as it is
\* then, changes nothing.
C40_FailedStartChangesNothing ==
    [][/\ StartRaises(User) =>
              /\ ~running'
              /\ out'.raised
              /\ \A t \in Activities : pc'[t] = pc[t]
              /\ UNCHANGED <<flagVars, devVars, cancelReq, cancelTodo, waitFor, processing,
                             background, lockVars, lsnVars, connected, gen>>
       /\ (pc[User] = "idle" /\ ~running /\ userStops' # userStops) =>
              /\ pc' = pc
              /\ UNCHANGED <<flagVars, devVars, cancelReq, cancelTodo, waitFor, processing,
                             background, lockVars, lsnVars, connected, gen>>]_vars

\* the last start() failed in connect(), a stop() was called, and the session
\* is as if never started: no flag set, no activity alive, no task tracked
C40_Witness ==
    /\ out.op = "start" /\ out.raised
    /\ userStops > 0 /\ gen = 0
    /\ pc[User] = "idle"
    /\ ~running /\ ~ready /\ ~connected
    /\ AliveOf(Activities) = {}
    /\ processing = {} /\ background = {}

====
